---------------------------- MODULE Spec2Model ----------------------------
(***************************************************************************)
(* Scenario scheduling and expectation evaluation engine of LoadTest.      *)
(*                                                                         *)
(* The model covers src/scheduler.py (ScenarioScheduler), the two programs *)
(* that drive it (orchestrate.py and src/worker.py) and the store they     *)
(* share (src/utils/db.py).  ScenarioScheduler delegates timing to an      *)
(* APScheduler BackgroundScheduler built with its defaults (memory job     *)
(* store, thread pool executor, coalesce = True, max_instances = 1,        *)
(* misfire_grace_time = 1); the library calls made by scheduler.py are     *)
(* modelled at their call sites.                                           *)
(*                                                                         *)
(* Time is an integer clock `now`, in units; instants are counted in       *)
(* quarters of a unit.  An ISO timestamp and a timedelta are whole units.  *)
(* A datetime.now() never reads a whole unit, and the reads that follow    *)
(* one another within one call are strictly later than one another:       *)
(* schedule_scenario's read for the end time, its read for the trigger,    *)
(* then the reads of the scheduler and of the queries.  The scheduler      *)
(* thread and the store are prompt: the clock does not advance while a     *)
(* running scheduler has a due job or while a firing or a finalize is      *)
(* between two store operations.  A protocol handler and the programs' own *)
(* steps take any amount of time.                                          *)
(***************************************************************************)
EXTENDS Integers, Sequences, FiniteSets, TLC

\* ------------------------------------------------------------------ bounds
MaxTime == 3
MaxSchedules == 2

\* ------------------------------------------------------- program constants
\* in clock units of the model
MisfireGraceTime == 1
PollSleep == 1
OnceSleep == 2
Buffer == 1

\* --------------------------------------------------------------- universes
Sids == {"s1"}
\* one worker service per scenario of an orchestration
Workers == {"s1", "s2"}
Orch == "orch"
Scheds == {Orch} \cup Workers
\* the enabled scenarios of main.json, by the uuid orchestrate() gives each
ScenarioList == <<"s1">>
\* the enabled scenarios of a test configuration with two of them
ScenarioPair == <<"s1", "s2">>

PROTOCOL_HANDLERS == {"speed_test", "web_browsing"}

None == <<>>
Some(x) == <<x>>

Expectations ==
  << [metric |-> "latency", operator |-> "lte", value |-> 20, unit |-> "ms",
      evaluation_scope |-> "per_iteration", aggregation |-> "avg"],
     [metric |-> "latency", operator |-> "lte", value |-> 20, unit |-> "ms",
      evaluation_scope |-> "scenario", aggregation |-> "p99"] >>

\* Schedule descriptors and scenario definitions the inputs are drawn from.
\* start_time = "iso" stands for an ISO timestamp denoting instant start_iso,
\* "malformed" for a string datetime.fromisoformat rejects.
Intervals == {2}
Durations == {2, 3}
IsoStarts == {1}

OnceConfigs ==
  [protocol : {"speed_test"}, mode : {"once"},
   start_time : {"immediate", "malformed"}, start_iso : {0},
   interval_minutes : {2}, duration_hours : {3},
   expectations : {Expectations}]
  \cup
  [protocol : {"speed_test", "ftp"}, mode : {"once"},
   start_time : {"iso"}, start_iso : IsoStarts,
   interval_minutes : {2}, duration_hours : {3},
   expectations : {Expectations}]

RecurringConfigs ==
  [protocol : {"speed_test"}, mode : {"recurring"},
   start_time : {"immediate"}, start_iso : {0},
   interval_minutes : Intervals, duration_hours : Durations,
   expectations : {Expectations}]
  \cup
  [protocol : {"speed_test"}, mode : {"recurring"},
   start_time : {"malformed"}, start_iso : {0},
   interval_minutes : {2}, duration_hours : {3},
   expectations : {Expectations}]
  \cup
  [protocol : {"speed_test"}, mode : {"recurring"},
   start_time : {"iso"}, start_iso : IsoStarts,
   interval_minutes : Intervals, duration_hours : Durations,
   expectations : {Expectations}]

Configs == OnceConfigs \cup RecurringConfigs

\* A result record: what it is ("dataclass", "dict" or anything else) and its
\* fields; a field's value is of kind "float", "int", "bool", "str", "None" or
\* "dict", and value is the number it compares equal to (True == 1).
Field(name, value, kind) == [name |-> name, value |-> value, kind |-> kind]

\* A store that accepts every insert of a firing; otherwise cur.execute raises
\* for sample `at` of the batch of result record `batch`.
NoFailure == [batch |-> 0, at |-> 0]

\* What one invocation of a protocol handler can end in: the handler raises, or
\* it returns a list of result records and the store takes their samples.
HandlerResults == { << [type |-> "dict", fields |-> <<Field("latency", 12, "float")>>] >> }
Returns == {[raises |-> FALSE, results |-> r, fails |-> NoFailure] : r \in HandlerResults}
HandlerOutcomes == {[raises |-> TRUE, results |-> <<>>, fails |-> NoFailure]} \cup Returns

\* The scenario definitions of an orchestration of two scenarios: well-formed
\* with a registered protocol, with a protocol that has no handler, and with a
\* start_time that datetime.fromisoformat rejects.
PairConfigs ==
  [protocol : {"speed_test", "ftp"}, mode : {"recurring"},
   start_time : {"iso"}, start_iso : {1},
   interval_minutes : {2}, duration_hours : {2, 3},
   expectations : {Expectations}]
  \cup
  [protocol : {"speed_test"}, mode : {"recurring"},
   start_time : {"malformed"}, start_iso : {0},
   interval_minutes : {2}, duration_hours : {2},
   expectations : {Expectations}]

\* Expectations, definitions and handler results the evaluation is checked on.
\* operator "None" stands for an expectation without the key "operator".
Expectation(metric, operator, value, unit, aggregation) ==
  << [metric |-> metric, operator |-> operator, value |-> value, unit |-> unit,
      evaluation_scope |-> "per_iteration", aggregation |-> aggregation],
     [metric |-> metric, operator |-> operator, value |-> value, unit |-> unit,
      evaluation_scope |-> "scenario", aggregation |-> aggregation] >>

\* page_load_time is a metric of run_web_browsing_test: a speed test has no
\* sample of it; packet_loss is no key of METRIC_CATEGORIES
EvalExpectations ==
  {Expectation("latency", "lte", 20, "ms", "avg"),
   Expectation("download_speed", "gte", 100, "mbps", "p99"),
   Expectation("download_speed", "gte", 100, "MBps", "avg"),
   Expectation("latency", "gte", 1, "s", "avg"),
   Expectation("page_load_time", "gte", 5, "ms", "avg"),
   Expectation("page_load_time", "lte", 5, "ms", "avg"),
   Expectation("latency", "gte", 5, "parsecs", "avg"),
   Expectation("latency", "lte", 20, "mbps", "avg"),
   Expectation("packet_loss", "lte", 5, "s", "avg")}
  \cup {Expectation("latency", operator, 12, "ms", "avg") :
          operator \in {"lte", "lt", "gte", "gt", "eq", "ne", "None"}}
  \cup {Expectation("latency", "lte", 20, "ms", aggregation) :
          aggregation \in {"min", "max", "p50", "stddev", "sample_count", "median"}}

EvalConfigs ==
  [protocol : {"speed_test"}, mode : {"recurring"},
   start_time : {"iso"}, start_iso : {1},
   interval_minutes : {2}, duration_hours : {3},
   expectations : EvalExpectations]
  \cup
  [protocol : {"ftp"}, mode : {"recurring"},
   start_time : {"iso"}, start_iso : {1},
   interval_minutes : {2}, duration_hours : {3},
   expectations : {Expectation("latency", "lte", 20, "ms", "avg")}]

\* SpeedTestResult(download_speed, upload_speed, jitter, latency)
SpeedTestResult(download_speed, latency) ==
  [type |-> "dataclass",
   fields |-> <<Field("download_speed", download_speed, "float"),
                Field("upload_speed", 50, "float"),
                Field("jitter", 2, "float"),
                Field("latency", latency, "float")>>]

\* run_speed_test returns one result per target url
EvalResults ==
  { <<>>,
    <<SpeedTestResult(100, 12)>>,
    <<SpeedTestResult(120, 14)>>,
    <<SpeedTestResult(100, 10), SpeedTestResult(110, 12), SpeedTestResult(120, 14)>>,
    <<SpeedTestResult(100, 10), SpeedTestResult(120, 14)>>,
    <<SpeedTestResult(110, 12), SpeedTestResult(200, 12)>> }

EvalOutcomes ==
  {[raises |-> TRUE, results |-> <<>>, fails |-> NoFailure]}
  \cup {[raises |-> FALSE, results |-> r, fails |-> NoFailure] : r \in EvalResults}

\* Results of every kind, and a store that fails, for the extraction, the
\* storing and the aggregation of samples.
WebBrowsingResult(page_load_time, http_response_code) ==
  [type |-> "dataclass",
   fields |-> <<Field("url", 0, "str"),
                Field("page_load_time", page_load_time, "float"),
                Field("ttfb", 5, "float"),
                Field("dom_content_loaded", 20, "float"),
                Field("http_response_code", http_response_code, "int"),
                Field("resource_count", 3, "int"),
                Field("redirect_count", 0, "int")>>]

Sample(latency) == [type |-> "dict", fields |-> <<Field("latency", latency, "float")>>]

StoreResults ==
  { <<Sample(10), Sample(20), Sample(30), Sample(40)>>,
    <<Sample(40), Sample(10), Sample(30), Sample(20)>>,
    <<Sample(10), Sample(20)>>,
    <<WebBrowsingResult(30, 200), WebBrowsingResult(40, 404)>>,
    << [type |-> "dict",
        fields |-> <<Field("latency", 12, "float"), Field("ok", 1, "bool"),
                     Field("error", 0, "None"), Field("server", 0, "str"),
                     Field("timing", 0, "dict")>>] >>,
    << [type |-> "dict", fields |-> <<Field("latency", 1, "bool")>>], Sample(20) >>,
    << [type |-> "namedtuple", fields |-> <<Field("latency", 12, "float")>>] >> }

StoreFailures == [batch : 1..3, at : {1, 3}]

StoreConfigs ==
  [protocol : {"web_browsing"}, mode : {"recurring"},
   start_time : {"iso"}, start_iso : {1},
   interval_minutes : {2}, duration_hours : {3},
   expectations : {Expectation("latency", "lte", 20, "ms", "avg"), <<>>}]

\* the finalize_scenario calls a client makes for one scenario
MaxFinalizes == 2

VARIABLES
  now,                 \* wall clock
  state,               \* per scheduler: "stopped" | "running" | "shutdown"
  pending_jobs,        \* per scheduler: jobs added before start()
  jobstore,            \* per scheduler: job id -> job
  inflight,            \* per scheduler: job id -> the running instance
  scenario_jobs,       \* per scheduler: scenario id -> job id
  scenario_end_times,  \* per scheduler: scenario id -> end time
  scenario_configs,    \* per scheduler: scenario id -> config
  raised,              \* per scheduler: what its last API call raised
  fin,                 \* per scheduler: the finalize call in progress
  test_runs,           \* load_test.test_runs
  raw_metrics,         \* load_test.raw_metrics
  results_log,         \* load_test.results_log
  scenario_summary,    \* load_test.scenario_summary
  fired,               \* history: job function invocations
  missed,              \* history: run times dropped as misfires
  finalize_log,        \* history: finalize_scenario invocations
  nsched,              \* history: schedule_scenario calls per scheduler
  scheduled_at,        \* history: instant of the last schedule_scenario call per id
  opc, owake, odeadline, oleft,   \* orchestrator: position, sleep, deadline, scenarios left
  wpc, wwake, wdeadline, wconfig  \* per worker: position, sleep, deadline, SCENARIO_CONFIG

registryVars == <<state, pending_jobs, jobstore, scenario_jobs, scenario_end_times,
                  scenario_configs, nsched, scheduled_at>>
schedVars == <<registryVars, raised>>
runVars == <<inflight, fired, missed>>
dbVars == <<test_runs, raw_metrics, results_log, scenario_summary>>
finVars == <<fin, finalize_log>>
orchVars == <<opc, owake, odeadline, oleft>>
workerVars == <<wpc, wwake, wdeadline, wconfig>>
vars == <<now, schedVars, runVars, dbVars, finVars, orchVars, workerVars>>

\* ---------------------------------------------------------------- helpers
Put(f, k, v) == [x \in DOMAIN f \cup {k} |-> IF x = k THEN v ELSE f[x]]
Drop(f, k) == [x \in DOMAIN f \ {k} |-> f[x]]
CeilDiv(a, b) == (a + b - 1) \div b

\* ------------------------------------------------------------------- instants
\* timedelta(hours = n), timedelta(minutes = n), datetime.fromisoformat(...)
Units(n) == 4 * n
\* the clock unit an instant lies in
UnitOf(t) == t \div 4
\* datetime.now() where schedule_scenario computes a recurring end time
ReadEnd == 4 * now + 1
\* datetime.now() where schedule_scenario builds the trigger
ReadTrigger == 4 * now + 2
\* datetime.now(tz) of the scheduler and datetime.now() of is_scenario_complete
ReadNow == 4 * now + 3

\* f"scenario_{scenario_id}"
JobId(sid) == <<"scenario", sid>>

\* ---------------------------------------------------------------- triggers
\* DateTrigger(run_date) and IntervalTrigger(minutes, start_date, end_date).
DateTrigger(run_date) ==
  [type |-> "date", start_date |-> run_date, interval |-> 0, end_date |-> 0]
IntervalTrigger(minutes, start_date, end_date) ==
  [type |-> "interval", start_date |-> start_date, interval |-> minutes,
   end_date |-> end_date]

\* trigger.get_next_fire_time(previous_fire_time, now)
get_next_fire_time(trigger, previous_fire_time, t) ==
  IF trigger.type = "date"
  THEN IF previous_fire_time = None THEN Some(trigger.start_date) ELSE None
  ELSE LET next_fire_time ==
             IF previous_fire_time # None
             THEN previous_fire_time[1] + trigger.interval
             ELSE IF trigger.start_date > t
             THEN trigger.start_date
             ELSE trigger.start_date
                  + trigger.interval * CeilDiv(t - trigger.start_date, trigger.interval)
       IN IF next_fire_time <= trigger.end_date
          THEN Some(next_fire_time) ELSE None

\* job._get_run_times(now): every run time of the job that is due
RECURSIVE RunTimesFrom(_, _, _)
RunTimesFrom(trigger, next_run_time, t) ==
  IF next_run_time # None /\ next_run_time[1] <= t
  THEN <<next_run_time[1]>>
       \o RunTimesFrom(trigger, get_next_fire_time(trigger, next_run_time, t), t)
  ELSE <<>>

get_run_times(job, t) == RunTimesFrom(job.trigger, job.next_run_time, t)

\* ------------------------------------------------- ScenarioScheduler: API
\* BaseScheduler._real_add_job: the first next_run_time of a job
real_add_job(job, t) ==
  [job EXCEPT !.has_next_run_time = TRUE,
              !.next_run_time = get_next_fire_time(job.trigger, None, t)]

\* ScenarioScheduler.schedule_scenario(scenario_id, scenario_config), with the
\* BaseScheduler.add_job it ends in.  raised'[s] tells the caller how it ended.
\* an end time counted from the call, whatever the start_time
end_time_from_now(cfg) == ReadEnd + Units(cfg.duration_hours)

\* end_time = start_dt + timedelta(hours=duration_hours)
end_time(cfg) ==
  LET start_dt == IF cfg.start_time = "immediate" THEN ReadEnd ELSE Units(cfg.start_iso)
  IN start_dt + Units(cfg.duration_hours)

schedule_scenario(s, sid, cfg) ==
  LET parse_ok == cfg.start_time # "malformed"
      end_times == IF cfg.mode = "recurring" /\ parse_ok
                   THEN Put(scenario_end_times[s], sid, end_time(cfg))
                   ELSE scenario_end_times[s]
      next_run == IF cfg.start_time = "immediate" THEN ReadTrigger
                  ELSE Units(cfg.start_iso)
      trigger == IF cfg.mode = "once"
                 THEN DateTrigger(next_run)
                 ELSE IntervalTrigger(Units(cfg.interval_minutes), next_run, end_times[sid])
      job == [id |-> JobId(sid), scenario_id |-> sid, config |-> cfg,
              trigger |-> trigger, has_next_run_time |-> FALSE,
              next_run_time |-> None]
  IN /\ scenario_configs' = [scenario_configs EXCEPT ![s] = Put(@, sid, cfg)]
     /\ nsched' = [nsched EXCEPT ![s] = @ + 1]
     /\ scheduled_at' = [scheduled_at EXCEPT ![s] = Put(@, sid, now)]
     /\ scenario_end_times' = [scenario_end_times EXCEPT ![s] = end_times]
     /\ IF ~parse_ok
        THEN /\ raised' = [raised EXCEPT ![s] = "ValueError"]
             /\ UNCHANGED <<state, pending_jobs, jobstore, scenario_jobs>>
        ELSE IF state[s] # "running"
        THEN /\ pending_jobs' = [pending_jobs EXCEPT ![s] = Append(@, job)]
             /\ scenario_jobs' = [scenario_jobs EXCEPT ![s] = Put(@, sid, job.id)]
             /\ raised' = [raised EXCEPT ![s] = "none"]
             /\ UNCHANGED <<state, jobstore>>
        ELSE IF job.id \in DOMAIN jobstore[s]
        THEN /\ raised' = [raised EXCEPT ![s] = "ConflictingIdError"]
             /\ UNCHANGED <<state, pending_jobs, jobstore, scenario_jobs>>
        ELSE /\ jobstore' = [jobstore EXCEPT ![s] = Put(@, job.id, real_add_job(job, ReadNow))]
             /\ scenario_jobs' = [scenario_jobs EXCEPT ![s] = Put(@, sid, job.id)]
             /\ raised' = [raised EXCEPT ![s] = "none"]
             /\ UNCHANGED <<state, pending_jobs>>

\* BaseScheduler.start: the pending jobs are really added, in order; a job whose
\* id is already stored raises ConflictingIdError out of start()
RECURSIVE AddPending(_, _, _)
AddPending(store, pending, t) ==
  IF pending = <<>> THEN [store |-> store, left |-> <<>>]
  ELSE IF Head(pending).id \in DOMAIN store THEN [store |-> store, left |-> pending]
  ELSE AddPending(Put(store, Head(pending).id, real_add_job(Head(pending), t)),
                  Tail(pending), t)

\* ScenarioScheduler.start()
start(s) ==
  LET r == AddPending(jobstore[s], pending_jobs[s], ReadNow)
  IN /\ state[s] = "stopped"
     /\ jobstore' = [jobstore EXCEPT ![s] = r.store]
     /\ IF r.left = <<>>
        THEN /\ state' = [state EXCEPT ![s] = "running"]
             /\ pending_jobs' = [pending_jobs EXCEPT ![s] = <<>>]
             /\ raised' = [raised EXCEPT ![s] = "none"]
        ELSE /\ raised' = [raised EXCEPT ![s] = "ConflictingIdError"]
             /\ UNCHANGED <<state, pending_jobs>>
     /\ UNCHANGED <<scenario_jobs, scenario_end_times, scenario_configs, nsched, scheduled_at>>

\* a shutdown that drops the executor's running instances
shutdown_discarding(s) ==
  /\ state[s] = "running"
  /\ state' = [state EXCEPT ![s] = "shutdown"]
  /\ raised' = [raised EXCEPT ![s] = "none"]
  /\ inflight' = [inflight EXCEPT ![s] = <<>>]
  /\ UNCHANGED <<pending_jobs, jobstore, scenario_jobs, scenario_end_times,
                 scenario_configs, nsched, scheduled_at>>

\* ScenarioScheduler.shutdown(): the scheduler stops submitting; with wait=True
\* the call returns once the executor has run its instances to the end
shutdown(s) ==
  /\ state[s] = "running"
  /\ state' = [state EXCEPT ![s] = "shutdown"]
  /\ raised' = [raised EXCEPT ![s] = "none"]
  /\ UNCHANGED inflight
  /\ UNCHANGED <<pending_jobs, jobstore, scenario_jobs, scenario_end_times,
                 scenario_configs, nsched, scheduled_at>>

\* BaseScheduler.get_job: the pending jobs of a scheduler that is not running,
\* the job store of one that is
get_job(s, job_id) ==
  IF state[s] # "running"
  THEN LET hits == {i \in DOMAIN pending_jobs[s] : pending_jobs[s][i].id = job_id}
       IN IF hits = {} THEN None
          ELSE Some(pending_jobs[s][CHOOSE i \in hits : \A j \in hits : i <= j])
  ELSE IF job_id \in DOMAIN jobstore[s] THEN Some(jobstore[s][job_id]) ELSE None

\* completion read off the job alone, whatever the scenario's mode
is_scenario_complete_by_job(s, sid) ==
  IF sid \in DOMAIN scenario_jobs[s]
  THEN LET job == get_job(s, scenario_jobs[s][sid])
       IN IF job # None /\ ~job[1].has_next_run_time
          THEN "AttributeError"
          ELSE IF job = None \/ job[1].next_run_time = None THEN "True" ELSE "False"
  ELSE "True"

\* ScenarioScheduler.is_scenario_complete(scenario_id) -> "True" | "False", or
\* "AttributeError": a job that was never really added has no next_run_time
is_scenario_complete(s, sid) ==
  IF sid \notin DOMAIN scenario_end_times[s]
  THEN IF sid \in DOMAIN scenario_jobs[s]
       THEN LET job == get_job(s, scenario_jobs[s][sid])
            IN IF job # None /\ ~job[1].has_next_run_time
               THEN "AttributeError"
               ELSE IF job = None \/ job[1].next_run_time = None THEN "True" ELSE "False"
       ELSE "True"
  ELSE IF ReadNow >= scenario_end_times[s][sid] THEN "True" ELSE "False"

\* ScenarioScheduler.get_pending_jobs()
get_pending_jobs(s) ==
  IF state[s] # "running"
  THEN {pending_jobs[s][i].id : i \in DOMAIN pending_jobs[s]}
  ELSE DOMAIN jobstore[s]

\* ------------------------------------------------ the scheduler's own thread
DueJobs(s) ==
  {id \in DOMAIN jobstore[s] :
     /\ jobstore[s][id].next_run_time # None
     /\ jobstore[s][id].next_run_time[1] <= ReadNow}

\* run_times[-1:] (coalesce = True)
CoalescedRunTime(job) ==
  LET run_times == get_run_times(job, ReadNow) IN run_times[Len(run_times)]

\* BasePoolExecutor.run_job: a run time later than misfire_grace_time is dropped
Misfired(run_time) == now - UnitOf(run_time) > MisfireGraceTime

\* BaseExecutor.submit_job: at most max_instances = 1 instance of a job
Submittable(s, id) == id \notin DOMAIN inflight[s]

Firing(s, job) ==
  [sched |-> s, scenario_id |-> job.scenario_id, run_time |-> CoalescedRunTime(job),
   trigger |-> job.trigger]

Instance(s, job) ==
  [pc |-> "execute", scenario_id |-> job.scenario_id, config |-> job.config,
   run_time |-> CoalescedRunTime(job), run_id |-> <<s, 0>>, results |-> <<>>]

\* BaseScheduler._process_jobs: every due job is submitted to the executor for
\* its coalesced run time, then moved to its next run time or removed.  The
\* pool thread starts at once: its misfire test is part of this step.
process_jobs(s) ==
  LET due == DueJobs(s)
      starts == {id \in due : Submittable(s, id)
                              /\ ~Misfired(CoalescedRunTime(jobstore[s][id]))}
      misses == {id \in due : Submittable(s, id)
                              /\ Misfired(CoalescedRunTime(jobstore[s][id]))}
      next(id) == get_next_fire_time(jobstore[s][id].trigger,
                                     Some(CoalescedRunTime(jobstore[s][id])), ReadNow)
      keep == {id \in DOMAIN jobstore[s] : id \notin due \/ next(id) # None}
  IN /\ state[s] = "running"
     /\ due # {}
     /\ jobstore' = [jobstore EXCEPT ![s] =
          [id \in keep |-> IF id \in due
                           THEN [jobstore[s][id] EXCEPT !.next_run_time = next(id)]
                           ELSE jobstore[s][id]]]
     /\ inflight' = [inflight EXCEPT ![s] =
          [id \in DOMAIN inflight[s] \cup starts |->
             IF id \in starts THEN Instance(s, jobstore[s][id]) ELSE inflight[s][id]]]
     /\ fired' = fired \cup {Firing(s, jobstore[s][id]) : id \in starts}
     /\ missed' = missed \cup {Firing(s, jobstore[s][id]) : id \in misses}
     /\ UNCHANGED <<now, state, pending_jobs, scenario_jobs, scenario_end_times,
                    scenario_configs, raised, nsched, scheduled_at, dbVars, finVars,
                    orchVars, workerVars>>

\* --------------------------------------------------------- one firing's steps
\* The store's tables are sets of rows.  A uuid4 is modelled by what makes the
\* row unique: the creating scheduler and its count of such rows.
RunsOf(sid) == {r.run_id : r \in {x \in test_runs : x.scenario_id = sid}}

RunsBy(s) == {r \in test_runs : r.worker_node = s}

\* ScenarioScheduler._extract_metrics over the handler's results, in order
RECURSIVE Flatten(_)
Flatten(seqs) == IF seqs = <<>> THEN <<>> ELSE Head(seqs) \o Flatten(Tail(seqs))

\* isinstance(value, (int, float)): bool is a subclass of int
IsNumber(field) == field.kind \in {"int", "float", "bool"}

\* ScenarioScheduler._extract_metrics(result)
extract_metrics(result) ==
  IF result.type \in {"dataclass", "dict"} THEN SelectSeq(result.fields, IsNumber)
  ELSE <<>>

\* the metrics of the result records before record i, one after another
MetricsBefore(results, i) ==
  Flatten([j \in 1..(i - 1) |-> extract_metrics(results[j])])

\* str(metric_value) as the store keeps it: the digits of a number, or the name
\* of a bool
Str(field) ==
  IF field.kind = "bool" THEN (IF field.value = 1 THEN "True" ELSE "False") ELSE "digits"

\* the cursor raises at sample fails_at of the batch
BatchFails(metrics, fails_at) == fails_at \in DOMAIN metrics

\* a batch insert on a connection that commits every statement
insert_raw_metrics_autocommit(run_id, offset, metrics, fails_at) ==
  {[id |-> offset + k, run_id |-> run_id, metric_name |-> metrics[k].name,
    metric_value |-> metrics[k].value, repr |-> Str(metrics[k])] :
     k \in {j \in DOMAIN metrics : ~BatchFails(metrics, fails_at) \/ j < fails_at}}

\* insert_raw_metrics_batch(run_id, metrics) in the transaction of
\* get_connection: the rows it leaves in load_test.raw_metrics.  The uuid of a
\* row is modelled by the position of its sample among the samples of the run.
insert_raw_metrics_batch(run_id, offset, metrics, fails_at) ==
  IF BatchFails(metrics, fails_at) THEN {}
  ELSE {[id |-> offset + k, run_id |-> run_id, metric_name |-> metrics[k].name,
         metric_value |-> metrics[k].value, repr |-> Str(metrics[k])] :
          k \in DOMAIN metrics}

\* the store raises during the loop over the results
StoreFails(results, fails) ==
  /\ fails.batch \in DOMAIN results
  /\ BatchFails(extract_metrics(results[fails.batch]), fails.at)

\* the outcomes of a firing on StoreResults: a failure is one that the loop
\* over the results runs into
StoreOutcomes ==
  {[raises |-> TRUE, results |-> <<>>, fails |-> NoFailure]}
  \cup {[raises |-> FALSE, results |-> r, fails |-> NoFailure] : r \in StoreResults}
  \cup {o \in [raises : {FALSE}, results : StoreResults, fails : StoreFailures] :
          StoreFails(o.results, o.fails)}

\* a loop that stores the samples of the first result only
SamplesOfFirst(run_id, results, fails) ==
  IF results = <<>> THEN {}
  ELSE insert_raw_metrics_batch(run_id, 0, extract_metrics(results[1]),
                                IF fails.batch = 1 THEN fails.at ELSE 0)

\* the loop `for result in results` of _execute_test: the rows it leaves; a
\* batch that fails ends the loop
SamplesOf(run_id, results, fails) ==
  UNION {insert_raw_metrics_batch(run_id, Len(MetricsBefore(results, i)),
                                  extract_metrics(results[i]),
                                  IF i = fails.batch THEN fails.at ELSE 0) :
           i \in {j \in DOMAIN results : StoreFails(results, fails) => j <= fails.batch}}

\* -------------------------------------------------------------------- floats
\* A float is modelled by the real it stands for: the fraction n/d (d > 0) or,
\* for a standard deviation, the square root of n/d.  No value of the model is
\* negative.  str(float) and float(str) are each other's inverse.
Num(n, d) == [n |-> n, d |-> d, root |-> FALSE]
Zero == Num(0, 1)
Sqrt(q) == [q EXCEPT !.root = TRUE]
Square(q) == IF q.root THEN Num(q.n, q.d) ELSE Num(q.n * q.n, q.d * q.d)
Times(q, m) == Num(q.n * m[1], q.d * m[2])
Less(a, b) ==
  IF a.root \/ b.root
  THEN Square(a).n * Square(b).d < Square(b).n * Square(a).d
  ELSE a.n * b.d < b.n * a.d
Same(a, b) ==
  IF a.root \/ b.root
  THEN Square(a).n * Square(b).d = Square(b).n * Square(a).d
  ELSE a.n * b.d = b.n * a.d

\* ------------------------------------------------------ utils/aggregator.py
RECURSIVE SumOf(_)
SumOf(rows) ==
  IF rows = {} THEN 0
  ELSE LET m == CHOOSE x \in rows : TRUE IN m.metric_value + SumOf(rows \ {m})

RECURSIVE SumSquares(_)
SumSquares(rows) ==
  IF rows = {} THEN 0
  ELSE LET m == CHOOSE x \in rows : TRUE
       IN m.metric_value * m.metric_value + SumSquares(rows \ {m})

\* sorted(values)
RECURSIVE Sorted(_)
Sorted(rows) ==
  IF rows = {} THEN <<>>
  ELSE LET m == CHOOSE x \in rows : \A y \in rows : x.metric_value <= y.metric_value
       IN <<m.metric_value>> \o Sorted(rows \ {m})

\* statistics.mean, min, max, statistics.stdev of the values of sample rows
Mean(rows) == Num(SumOf(rows), Cardinality(rows))
MinOf(rows) == Num(Sorted(rows)[1], 1)
MaxOf(rows) == Num(Sorted(rows)[Cardinality(rows)], 1)
Stdev(rows) ==
  LET n == Cardinality(rows)
  IN Sqrt(Num(n * SumSquares(rows) - SumOf(rows) * SumOf(rows), n * (n - 1)))

\* the nearest-rank percentile: the value at rank ceil(percentile * n)
calculate_percentile_nearest_rank(rows, percentile) ==
  IF rows = {} THEN Zero
  ELSE LET sorted_values == Sorted(rows)
           rank == CeilDiv(percentile * Len(sorted_values), 100)
       IN Num(sorted_values[IF rank = 0 THEN 1 ELSE rank], 1)

\* calculate_percentile(values, percentile), percentile in hundredths
calculate_percentile(rows, percentile) ==
  IF rows = {} THEN Zero
  ELSE LET sorted_values == Sorted(rows)
           index == (Len(sorted_values) - 1) * percentile
           lower == index \div 100
           upper == lower + 1
           weight == index - 100 * lower
       IN IF upper >= Len(sorted_values)
          THEN Num(sorted_values[Len(sorted_values)], 1)
          ELSE Num(sorted_values[lower + 1] * (100 - weight)
                   + sorted_values[upper + 1] * weight, 100)

\* get_raw_metrics_for_run, get_raw_metrics_for_scenario
RowsOfRun(run_id) == {m \in raw_metrics : m.run_id = run_id}
RowsOfScenario(sid) == {m \in raw_metrics : m.run_id \in RunsOf(sid)}
Named(rows, metric) == {m \in rows : m.metric_name = metric}

\* metric_value::NUMERIC in the query of get_raw_metrics_for_scenario: the
\* query raises when a stored value of the scenario is not the text of a number
CastRaises(sid) == \E m \in RowsOfScenario(sid) : m.repr # "digits"

\* the rows that float(metric["metric_value"]) accepts
Parsed(rows) == {m \in rows : m.repr = "digits"}

MetricsOf(sid) == {m.metric_name : m \in Parsed(RowsOfScenario(sid))}

aggregate_metrics_for_run(run_id) ==
  [metric \in {m.metric_name : m \in Parsed(RowsOfRun(run_id))} |->
     Mean(Named(Parsed(RowsOfRun(run_id)), metric))]

\* aggregate_metrics_for_scenario, when its query returns
aggregate_metrics_for_scenario(sid) ==
  [metric \in MetricsOf(sid) |->
     LET values == Named(Parsed(RowsOfScenario(sid)), metric)
     IN [sample_count |-> Num(Cardinality(values), 1),
         avg |-> Mean(values),
         min |-> MinOf(values),
         max |-> MaxOf(values),
         p50 |-> calculate_percentile(values, 50),
         p99 |-> calculate_percentile(values, 99),
         stddev |-> IF Cardinality(values) > 1 THEN Stdev(values) ELSE Zero]]

get_aggregated_value(sid, metric_name, aggregation) ==
  LET all_aggregated == aggregate_metrics_for_scenario(sid)
  IN IF metric_name \notin DOMAIN all_aggregated THEN Zero
     ELSE IF aggregation \in DOMAIN all_aggregated[metric_name]
     THEN all_aggregated[metric_name][aggregation]
     ELSE all_aggregated[metric_name].avg

\* --------------------------------------------------- utils/unit_converter.py
\* a multiplier is the pair <<numerator, denominator>>
SPEED_CONVERSIONS ==
  [bps |-> <<1, 1000000>>, kbps |-> <<1, 1000>>, mbps |-> <<1, 1>>,
   gbps |-> <<1000, 1>>, Bps |-> <<8, 1000000>>, KBps |-> <<8, 1000>>,
   MBps |-> <<8, 1>>, GBps |-> <<8000, 1>>]

TIME_CONVERSIONS ==
  [ns |-> <<1, 1000000>>, us |-> <<1, 1000>>, ms |-> <<1, 1>>, s |-> <<1000, 1>>,
   sec |-> <<1000, 1>>, seconds |-> <<1000, 1>>, min |-> <<60000, 1>>,
   minutes |-> <<60000, 1>>]

COUNT_CONVERSIONS == ("count" :> <<1, 1>>) @@ ("" :> <<1, 1>>)

METRIC_CATEGORIES ==
  [download_speed |-> "speed", upload_speed |-> "speed", latency |-> "time",
   jitter |-> "time", page_load_time |-> "time", ttfb |-> "time",
   dom_content_loaded |-> "time", resource_count |-> "count",
   redirect_count |-> "count", http_response_code |-> "count"]

get_conversion_table(category) ==
  IF category = "speed" THEN SPEED_CONVERSIONS
  ELSE IF category = "time" THEN TIME_CONVERSIONS
  ELSE COUNT_CONVERSIONS

\* str.lower() on the unit spellings that have an upper-case letter
Lower(unit) ==
  CASE unit = "Bps" -> "bps"
    [] unit = "KBps" -> "kbps"
    [] unit = "MBps" -> "mbps"
    [] unit = "GBps" -> "gbps"
    [] unit = "Mbps" -> "mbps"
    [] unit = "MS" -> "ms"
    [] OTHER -> unit

\* a conversion that takes a metric without category for a time
convert_to_standard_as_time(value, unit, metric_name) ==
  LET category == IF metric_name \in DOMAIN METRIC_CATEGORIES
                  THEN METRIC_CATEGORIES[metric_name] ELSE "time"
      conversion_table == get_conversion_table(category)
      unit_lower == Lower(unit)
  IN IF unit_lower \in DOMAIN conversion_table
     THEN Times(value, conversion_table[unit_lower])
     ELSE value

convert_to_standard(value, unit, metric_name) ==
  LET category == IF metric_name \in DOMAIN METRIC_CATEGORIES
                  THEN METRIC_CATEGORIES[metric_name] ELSE "count"
      conversion_table == get_conversion_table(category)
      unit_lower == Lower(unit)
  IN IF unit_lower \in DOMAIN conversion_table
     THEN Times(value, conversion_table[unit_lower])
     ELSE value

normalize_for_comparison(measured_value, expected_value, expected_unit, metric_name) ==
  <<measured_value, convert_to_standard(expected_value, expected_unit, metric_name)>>

\* ----------------------------------------------------------------- evaluation
\* a comparison that passes an operator it does not know
compare_values_lenient(measured, operator, expected) ==
  LET comparisons == [lte |-> ~Less(expected, measured),
                      lt |-> Less(measured, expected),
                      gte |-> ~Less(measured, expected),
                      gt |-> Less(expected, measured),
                      eq |-> Same(measured, expected)]
  IN IF operator \in DOMAIN comparisons /\ ~comparisons[operator] THEN "FAIL" ELSE "PASS"

\* ScenarioScheduler._compare_values
compare_values(measured, operator, expected) ==
  LET comparisons == [lte |-> ~Less(expected, measured),
                      lt |-> Less(measured, expected),
                      gte |-> ~Less(measured, expected),
                      gt |-> Less(expected, measured),
                      eq |-> Same(measured, expected)]
  IN IF operator \in DOMAIN comparisons /\ comparisons[operator] THEN "PASS" ELSE "FAIL"

\* the row _evaluate_expectations writes for one expectation
ResultRow(run_id, scenario_id, expectation, scope) ==
  LET metrics == aggregate_metrics_for_run(run_id)
      measured_value ==
        IF scope = "per_iteration"
        THEN IF expectation.metric \in DOMAIN metrics THEN metrics[expectation.metric]
             ELSE Zero
        ELSE get_aggregated_value(scenario_id, expectation.metric, expectation.aggregation)
      normalized == normalize_for_comparison(measured_value, Num(expectation.value, 1),
                                             expectation.unit, expectation.metric)
  IN [run_id |-> run_id, metric_name |-> expectation.metric,
      expected_value |-> <<expectation.value, expectation.unit>>,
      measured_value |-> measured_value,
      status |-> compare_values(normalized[1], expectation.operator, normalized[2]),
      scope |-> scope]

\* an evaluation that passes over the per-iteration expectations whose metric
\* the run has no sample of
evaluate_expectations_sampled(run_id, scenario_id, expectations, scope, caller, call) ==
  {[id |-> [by |-> caller, call |-> call, i |-> i],
    row |-> ResultRow(run_id, scenario_id, expectations[i], scope)] :
     i \in {j \in DOMAIN expectations :
              /\ expectations[j].evaluation_scope = scope
              /\ scope = "per_iteration" =>
                   expectations[j].metric \in DOMAIN aggregate_metrics_for_run(run_id)}}

\* ScenarioScheduler._evaluate_expectations: the rows written for one scope;
\* the uuid of a row is modelled by the caller, its call and the expectation
evaluate_expectations(run_id, scenario_id, expectations, scope, caller, call) ==
  {[id |-> [by |-> caller, call |-> call, i |-> i],
    row |-> ResultRow(run_id, scenario_id, expectations[i], scope)] :
     i \in {j \in DOMAIN expectations : expectations[j].evaluation_scope = scope}}

\* a job function that takes its job off the schedule when the protocol has no
\* handler
execute_test_unscheduling(s, id) ==
  /\ id \in DOMAIN inflight[s]
  /\ inflight[s][id].pc = "execute"
  /\ IF inflight[s][id].config.protocol \notin PROTOCOL_HANDLERS
     THEN /\ inflight' = [inflight EXCEPT ![s] = Drop(@, id)]
          /\ jobstore' = [jobstore EXCEPT ![s] = Drop(@, id)]
          /\ UNCHANGED test_runs
     ELSE /\ test_runs' = test_runs \cup
             {[run_id |-> <<s, Cardinality(RunsBy(s)) + 1>>,
               scenario_id |-> inflight[s][id].scenario_id, worker_node |-> s]}
          /\ inflight' = [inflight EXCEPT ![s][id].pc = "handler",
                                          ![s][id].run_id = <<s, Cardinality(RunsBy(s)) + 1>>]
          /\ UNCHANGED jobstore
  /\ UNCHANGED <<now, state, pending_jobs, scenario_jobs, scenario_end_times,
                 scenario_configs, raised, nsched, scheduled_at, fired, missed,
                 raw_metrics, results_log, scenario_summary, finVars, orchVars, workerVars>>

\* _execute_test up to the handler call: an unknown protocol ends the firing,
\* otherwise the Test Run is inserted
execute_test_begin(s, id) ==
  /\ id \in DOMAIN inflight[s]
  /\ inflight[s][id].pc = "execute"
  /\ IF inflight[s][id].config.protocol \notin PROTOCOL_HANDLERS
     THEN /\ inflight' = [inflight EXCEPT ![s] = Drop(@, id)]
          /\ UNCHANGED test_runs
     ELSE /\ test_runs' = test_runs \cup
             {[run_id |-> <<s, Cardinality(RunsBy(s)) + 1>>,
               scenario_id |-> inflight[s][id].scenario_id, worker_node |-> s]}
          /\ inflight' = [inflight EXCEPT ![s][id].pc = "handler",
                                          ![s][id].run_id = <<s, Cardinality(RunsBy(s)) + 1>>]
  /\ UNCHANGED <<now, schedVars, fired, missed, raw_metrics, results_log,
                 scenario_summary, finVars, orchVars, workerVars>>

\* a job function that starts over when its handler raises
handler_retrying(s, id, outcome) ==
  /\ id \in DOMAIN inflight[s]
  /\ inflight[s][id].pc = "handler"
  /\ IF outcome.raises
     THEN /\ inflight' = [inflight EXCEPT ![s][id].pc = "execute"]
          /\ UNCHANGED raw_metrics
     ELSE /\ raw_metrics' = raw_metrics \cup
                              SamplesOf(inflight[s][id].run_id, outcome.results, outcome.fails)
          /\ inflight' = IF StoreFails(outcome.results, outcome.fails)
                         THEN [inflight EXCEPT ![s] = Drop(@, id)]
                         ELSE [inflight EXCEPT ![s][id].pc = "evaluate",
                                               ![s][id].results = outcome.results]
  /\ UNCHANGED <<now, schedVars, fired, missed, test_runs, results_log,
                 scenario_summary, finVars, orchVars, workerVars>>

\* handler(parameters) raises, which ends the job function, or returns and the
\* loop over insert_raw_metrics_batch stores the samples of its results; an
\* insert that raises ends the job function as well
handler_returns(s, id, outcome) ==
  /\ id \in DOMAIN inflight[s]
  /\ inflight[s][id].pc = "handler"
  /\ IF outcome.raises
     THEN /\ inflight' = [inflight EXCEPT ![s] = Drop(@, id)]
          /\ UNCHANGED raw_metrics
     ELSE /\ raw_metrics' = raw_metrics \cup
                              SamplesOf(inflight[s][id].run_id, outcome.results, outcome.fails)
          /\ inflight' = IF StoreFails(outcome.results, outcome.fails)
                         THEN [inflight EXCEPT ![s] = Drop(@, id)]
                         ELSE [inflight EXCEPT ![s][id].pc = "evaluate",
                                               ![s][id].results = outcome.results]
  /\ UNCHANGED <<now, schedVars, fired, missed, test_runs, results_log,
                 scenario_summary, finVars, orchVars, workerVars>>

\* _evaluate_expectations(run_id, ..., scope="per_iteration"); the job ends
evaluate_per_iteration(s, id) ==
  /\ id \in DOMAIN inflight[s]
  /\ inflight[s][id].pc = "evaluate"
  /\ results_log' = results_log \cup
       evaluate_expectations(inflight[s][id].run_id, inflight[s][id].scenario_id,
                             inflight[s][id].config.expectations, "per_iteration",
                             s, inflight[s][id].run_id[2])
  /\ inflight' = [inflight EXCEPT ![s] = Drop(@, id)]
  /\ UNCHANGED <<now, schedVars, fired, missed, test_runs, raw_metrics,
                 scenario_summary, finVars, orchVars, workerVars>>

\* ------------------------------------------------------------------ finalize
InFlight(sid) == \E s \in Scheds : JobId(sid) \in DOMAIN inflight[s]

FinalizeCalls(s, sid) == {f \in finalize_log : f.by = s /\ f.scenario_id = sid}

\* finalize_scenario up to and including the scenario-scope evaluation; the run
\* id is whatever row `SELECT run_id ... LIMIT 1` returns, else a fresh uuid.
\* The first get_aggregated_value raises what its query raises.
finalize_evaluate(s, sid) ==
  LET expectations == IF sid \in DOMAIN scenario_configs[s]
                      THEN scenario_configs[s][sid].expectations ELSE <<>>
  IN /\ fin[s] = None
     /\ IF /\ CastRaises(sid)
           /\ \E i \in DOMAIN expectations : expectations[i].evaluation_scope = "scenario"
        THEN /\ raised' = [raised EXCEPT ![s] = "DataError"]
             /\ UNCHANGED <<results_log, fin>>
        ELSE /\ \E run_id \in (IF RunsOf(sid) = {} THEN {<<s, 0>>} ELSE RunsOf(sid)) :
                  results_log' = results_log \cup
                    evaluate_expectations(run_id, sid, expectations, "scenario", s,
                                          Cardinality({f \in finalize_log : f.by = s}) + 1)
             /\ fin' = [fin EXCEPT ![s] = Some(sid)]
             /\ raised' = [raised EXCEPT ![s] = "none"]
     /\ finalize_log' = finalize_log \cup
          {[by |-> s, scenario_id |-> sid, n |-> Cardinality(FinalizeCalls(s, sid)) + 1,
            busy |-> InFlight(sid), complete |-> is_scenario_complete(s, sid)]}
     /\ UNCHANGED <<test_runs, raw_metrics, scenario_summary>>

\* the row of load_test.scenario_summary that one insert writes; summary_id
\* is modelled by the number of rows the table has had
SummaryRow(summary_id, scenario_id, metric_name, stats) ==
  [id |-> summary_id, scenario_id |-> scenario_id, metric_name |-> metric_name,
   sample_count |-> stats.sample_count, avg_value |-> stats.avg,
   min_value |-> stats.min, max_value |-> stats.max, p50_value |-> stats.p50,
   p99_value |-> stats.p99, stddev_value |-> stats.stddev]

Conflicting(table, scenario_id, metric_name) ==
  {r \in table : r.scenario_id = scenario_id /\ r.metric_name = metric_name}

\* an INSERT without the ON CONFLICT clause, on a table without the constraint
insert_scenario_summary_plain(table, scenario_id, metric_name, stats) ==
  table \cup {SummaryRow(Cardinality(table) + 1, scenario_id, metric_name, stats)}

\* insert_scenario_summary: INSERT ... ON CONFLICT (scenario_id, metric_name) DO
\* UPDATE SET every statistic; the row in conflict keeps its id
insert_scenario_summary(table, scenario_id, metric_name, stats) ==
  LET conflict == Conflicting(table, scenario_id, metric_name)
  IN IF conflict = {}
     THEN table \cup {SummaryRow(Cardinality(table) + 1, scenario_id, metric_name, stats)}
     ELSE (table \ conflict)
          \cup {SummaryRow(r.id, scenario_id, metric_name, stats) : r \in conflict}

\* the loop of save_scenario_summary over the metrics left to insert
RECURSIVE SaveAll(_, _, _, _)
SaveAll(table, scenario_id, aggregated, metrics) ==
  IF metrics = {} THEN table
  ELSE LET metric_name == CHOOSE m \in metrics : TRUE
       IN SaveAll(insert_scenario_summary(table, scenario_id, metric_name,
                                          aggregated[metric_name]),
                  scenario_id, aggregated, metrics \ {metric_name})

\* save_scenario_summary(scenario_id): the table it leaves
save_scenario_summary(table, scenario_id) ==
  LET aggregated == aggregate_metrics_for_scenario(scenario_id)
  IN SaveAll(table, scenario_id, aggregated, DOMAIN aggregated)

\* the rest of finalize_scenario: save_scenario_summary, which raises what its
\* query raises
finalize_summary(s) ==
  /\ fin[s] # None
  /\ IF CastRaises(fin[s][1])
     THEN /\ raised' = [raised EXCEPT ![s] = "DataError"]
          /\ UNCHANGED scenario_summary
     ELSE /\ scenario_summary' = save_scenario_summary(scenario_summary, fin[s][1])
          /\ UNCHANGED raised
  /\ fin' = [fin EXCEPT ![s] = None]
  /\ UNCHANGED <<test_runs, raw_metrics, results_log, finalize_log>>

\* --------------------------------------------------------------------- clock
\* The steps that take no time at the scale of the clock.  What takes time: a
\* protocol handler, deploy_test_service and the start of a worker's container,
\* a time.sleep, shutdown(wait=True) while an instance runs, and the client of
\* the scheduler.
OrchIsPrompt ==
  \/ opc = "poll" /\ now >= owake
  \/ opc = "finalize"
  \/ opc = "join" /\ inflight[Orch] = <<>>

WorkerIsPrompt(w) ==
  \/ wpc[w] \in {"start", "finalize", "shutdown"}
  \/ wpc[w] \in {"sleep", "poll"} /\ now >= wwake[w]
  \/ wpc[w] = "join" /\ inflight[w] = <<>>

Tick ==
  /\ now < MaxTime
  /\ \A s \in Scheds : state[s] = "running" => DueJobs(s) = {}
  /\ \A s \in Scheds : \A id \in DOMAIN inflight[s] : inflight[s][id].pc = "handler"
  /\ \A s \in Scheds : fin[s] = None
  /\ ~OrchIsPrompt
  /\ \A w \in Workers : ~WorkerIsPrompt(w)
  /\ now' = now + 1
  /\ UNCHANGED <<schedVars, runVars, dbVars, finVars, orchVars, workerVars>>

\* ------------------------------------------- a client of one ScenarioScheduler
\* The client schedules a scenario id once, as orchestrate() and run_worker()
\* do, starts the scheduler, may finalize each scenario once and shuts down.
ClientSchedule(sid, cfg) ==
  /\ fin[Orch] = None
  /\ sid \notin DOMAIN scenario_configs[Orch]
  /\ schedule_scenario(Orch, sid, cfg)
  /\ UNCHANGED <<now, runVars, dbVars, finVars, orchVars, workerVars>>

\* A client that schedules an id again
ClientReschedule(sid, cfg) ==
  /\ fin[Orch] = None
  /\ sid \in DOMAIN scenario_configs[Orch]
  /\ nsched[Orch] < MaxSchedules
  /\ schedule_scenario(Orch, sid, cfg)
  /\ UNCHANGED <<now, runVars, dbVars, finVars, orchVars, workerVars>>

ClientStart ==
  /\ fin[Orch] = None
  /\ start(Orch)
  /\ UNCHANGED <<now, runVars, dbVars, finVars, orchVars, workerVars>>

ClientShutdown ==
  /\ fin[Orch] = None
  /\ shutdown(Orch)
  /\ UNCHANGED <<now, fired, missed, dbVars, finVars, orchVars, workerVars>>

ClientFinalize(sid) ==
  /\ FinalizeCalls(Orch, sid) = {}
  /\ finalize_evaluate(Orch, sid)
  /\ UNCHANGED <<now, registryVars, runVars, orchVars, workerVars>>

\* a client that finalizes a scenario again
ClientFinalizeAgain(sid) ==
  /\ FinalizeCalls(Orch, sid) # {}
  /\ Cardinality(FinalizeCalls(Orch, sid)) < MaxFinalizes
  /\ finalize_evaluate(Orch, sid)
  /\ UNCHANGED <<now, registryVars, runVars, orchVars, workerVars>>

\* an exception of finalize_scenario ends orchestrate() or run_worker()
FinalizeSummary(s) ==
  /\ finalize_summary(s)
  /\ opc' = IF s = Orch /\ opc = "finalize" /\ raised'[s] # "none" THEN "crashed" ELSE opc
  /\ wpc' = [w \in Workers |-> IF w = s /\ raised'[s] # "none" THEN "crashed" ELSE wpc[w]]
  /\ UNCHANGED <<now, registryVars, runVars, owake, odeadline, oleft, wwake, wdeadline,
                 wconfig>>

\* ------------------------------------------------------------ orchestrate()
Max(S) == CHOOSE x \in S : \A y \in S : y <= x

\* calculate_total_duration(scenarios)
calculate_total_duration ==
  Max({0} \cup {scenario_configs[Orch][sid].duration_hours :
                  sid \in DOMAIN scenario_configs[Orch]})

\* scenario_ids.values(): the scenarios the loop has processed, in its order
scenario_ids ==
  SelectSeq(ScenarioPair, LAMBDA sid : sid \in DOMAIN scenario_configs[Orch])

\* one round of the loop over the scenarios: schedule_scenario, then
\* deploy_test_service starts the scenario's worker; an exception of
\* schedule_scenario ends orchestrate()
OrchProcessScenario(cfg) ==
  /\ opc = "scenarios"
  /\ oleft # <<>>
  /\ schedule_scenario(Orch, Head(oleft), cfg)
  /\ IF raised'[Orch] # "none"
     THEN /\ opc' = "crashed"
          /\ UNCHANGED <<oleft, wpc, wconfig>>
     ELSE /\ wpc' = [wpc EXCEPT ![Head(oleft)] = "boot"]
          /\ wconfig' = [wconfig EXCEPT ![Head(oleft)] = Some(cfg)]
          /\ oleft' = Tail(oleft)
          /\ opc' = IF Tail(oleft) = <<>> THEN "start" ELSE "scenarios"
  /\ UNCHANGED <<now, runVars, dbVars, finVars, owake, odeadline, wwake, wdeadline>>

\* scheduler.start() and the deadline of the wait
OrchStart ==
  /\ opc = "start"
  /\ start(Orch)
  /\ odeadline' = now + calculate_total_duration + Buffer
  /\ owake' = now
  /\ opc' = "poll"
  /\ UNCHANGED <<now, runVars, dbVars, finVars, oleft, workerVars>>

\* one round of the wait loop
OrchPoll ==
  /\ opc = "poll"
  /\ now >= owake
  /\ IF \/ now >= odeadline
        \/ \A i \in DOMAIN scenario_ids : is_scenario_complete(Orch, scenario_ids[i]) = "True"
     THEN /\ opc' = "finalize"
          /\ oleft' = scenario_ids
          /\ UNCHANGED owake
     ELSE /\ owake' = now + PollSleep
          /\ UNCHANGED <<opc, oleft>>
  /\ UNCHANGED <<now, schedVars, runVars, dbVars, finVars, odeadline, workerVars>>

\* one round of the loop over finalize_scenario
OrchFinalize ==
  /\ opc = "finalize"
  /\ oleft # <<>>
  /\ finalize_evaluate(Orch, Head(oleft))
  /\ IF raised'[Orch] # "none"
     THEN opc' = "crashed" /\ UNCHANGED oleft
     ELSE oleft' = Tail(oleft) /\ UNCHANGED opc
  /\ UNCHANGED <<now, registryVars, runVars, owake, odeadline, workerVars>>

OrchShutdown ==
  /\ opc = "finalize"
  /\ oleft = <<>>
  /\ fin[Orch] = None
  /\ shutdown(Orch)
  /\ opc' = "join"
  /\ UNCHANGED <<now, fired, missed, dbVars, finVars, owake, odeadline, oleft, workerVars>>

\* shutdown(wait=True) has returned; remove_service ends every worker
OrchRemoveServices ==
  /\ opc = "join"
  /\ inflight[Orch] = <<>>
  /\ opc' = "done"
  /\ wpc' = [w \in Workers |-> IF wpc[w] \in {"off", "exited", "crashed"} THEN wpc[w]
                                ELSE "removed"]
  /\ state' = [s \in Scheds |-> IF s \in Workers /\ state[s] = "running"
                                THEN "killed" ELSE state[s]]
  /\ inflight' = [s \in Scheds |-> IF s \in Workers THEN <<>> ELSE inflight[s]]
  /\ fin' = [s \in Scheds |-> IF s \in Workers THEN None ELSE fin[s]]
  /\ UNCHANGED <<now, pending_jobs, jobstore, scenario_jobs, scenario_end_times,
                 scenario_configs, raised, nsched, scheduled_at, fired, missed, dbVars,
                 finalize_log, owake, odeadline, oleft, wwake, wdeadline, wconfig>>

\* -------------------------------------------------------------- run_worker()
WorkerSchedule(w) ==
  /\ wpc[w] = "boot"
  /\ schedule_scenario(w, w, wconfig[w][1])
  /\ wpc' = [wpc EXCEPT ![w] = IF raised'[w] # "none" THEN "crashed" ELSE "start"]
  /\ UNCHANGED <<now, runVars, dbVars, finVars, orchVars, wwake, wdeadline, wconfig>>

\* scheduler.start(), then the sleep of a one-shot scenario or the deadline of
\* the wait loop of a recurring one
WorkerStart(w) ==
  /\ wpc[w] = "start"
  /\ start(w)
  /\ IF wconfig[w][1].mode = "once"
     THEN /\ wwake' = [wwake EXCEPT ![w] = now + OnceSleep]
          /\ wpc' = [wpc EXCEPT ![w] = "sleep"]
          /\ UNCHANGED wdeadline
     ELSE /\ wdeadline' = [wdeadline EXCEPT ![w] = now + wconfig[w][1].duration_hours]
          /\ wwake' = [wwake EXCEPT ![w] = now]
          /\ wpc' = [wpc EXCEPT ![w] = "poll"]
  /\ UNCHANGED <<now, runVars, dbVars, finVars, orchVars, wconfig>>

WorkerSleepDone(w) ==
  /\ wpc[w] = "sleep"
  /\ now >= wwake[w]
  /\ wpc' = [wpc EXCEPT ![w] = "finalize"]
  /\ UNCHANGED <<now, schedVars, runVars, dbVars, finVars, orchVars, wwake, wdeadline, wconfig>>

WorkerPoll(w) ==
  /\ wpc[w] = "poll"
  /\ now >= wwake[w]
  /\ IF now >= wdeadline[w] \/ is_scenario_complete(w, w) = "True"
     THEN /\ wpc' = [wpc EXCEPT ![w] = "finalize"]
          /\ UNCHANGED wwake
     ELSE /\ wwake' = [wwake EXCEPT ![w] = now + PollSleep]
          /\ UNCHANGED wpc
  /\ UNCHANGED <<now, schedVars, runVars, dbVars, finVars, orchVars, wdeadline, wconfig>>

WorkerFinalize(w) ==
  /\ wpc[w] = "finalize"
  /\ finalize_evaluate(w, w)
  /\ wpc' = [wpc EXCEPT ![w] = IF raised'[w] # "none" THEN "crashed" ELSE "shutdown"]
  /\ UNCHANGED <<now, registryVars, runVars, orchVars, wwake, wdeadline, wconfig>>

WorkerShutdown(w) ==
  /\ wpc[w] = "shutdown"
  /\ fin[w] = None
  /\ shutdown(w)
  /\ wpc' = [wpc EXCEPT ![w] = "join"]
  /\ UNCHANGED <<now, fired, missed, dbVars, finVars, orchVars, wwake, wdeadline, wconfig>>

WorkerExit(w) ==
  /\ wpc[w] = "join"
  /\ inflight[w] = <<>>
  /\ wpc' = [wpc EXCEPT ![w] = "exited"]
  /\ UNCHANGED <<now, schedVars, runVars, dbVars, finVars, orchVars, wwake, wdeadline, wconfig>>

\* ------------------------------------------------------------- specification
\* the state in which orchestrate() starts on a list of enabled scenarios
Boot(scenarios) ==
  /\ now = 0
  /\ state = [s \in Scheds |-> "stopped"]
  /\ pending_jobs = [s \in Scheds |-> <<>>]
  /\ jobstore = [s \in Scheds |-> <<>>]
  /\ inflight = [s \in Scheds |-> <<>>]
  /\ scenario_jobs = [s \in Scheds |-> <<>>]
  /\ scenario_end_times = [s \in Scheds |-> <<>>]
  /\ scenario_configs = [s \in Scheds |-> <<>>]
  /\ raised = [s \in Scheds |-> "none"]
  /\ fin = [s \in Scheds |-> None]
  /\ test_runs = {}
  /\ raw_metrics = {}
  /\ results_log = {}
  /\ scenario_summary = {}
  /\ fired = {}
  /\ missed = {}
  /\ finalize_log = {}
  /\ nsched = [s \in Scheds |-> 0]
  /\ scheduled_at = [s \in Scheds |-> <<>>]
  /\ opc = "scenarios"
  /\ owake = 0
  /\ odeadline = 0
  /\ oleft = scenarios
  /\ wpc = [w \in Workers |-> "off"]
  /\ wwake = [w \in Workers |-> 0]
  /\ wdeadline = [w \in Workers |-> 0]
  /\ wconfig = [w \in Workers |-> None]

Init == Boot(ScenarioList)

SchedulerThread == \E s \in Scheds : process_jobs(s)

FiringStep(outcomes) ==
  \E s \in Scheds : \E id \in DOMAIN inflight[s] :
    \/ execute_test_begin(s, id)
    \/ \E outcome \in outcomes : handler_returns(s, id, outcome)
    \/ evaluate_per_iteration(s, id)

\* one ScenarioScheduler and its client
Next ==
  \/ Tick
  \/ \E sid \in Sids : \E cfg \in Configs : ClientSchedule(sid, cfg)
  \/ ClientStart
  \/ ClientShutdown
  \/ \E sid \in Sids : ClientFinalize(sid)
  \/ FinalizeSummary(Orch)
  \/ SchedulerThread
  \/ FiringStep(HandlerOutcomes)

Spec == Init /\ [][Next]_vars

\* one ScenarioScheduler and its client, over the definitions and the handler
\* results of the evaluation
NextEval ==
  \/ Tick
  \/ \E sid \in Sids : \E cfg \in EvalConfigs : ClientSchedule(sid, cfg)
  \/ ClientStart
  \/ ClientShutdown
  \/ \E sid \in Sids : ClientFinalize(sid)
  \/ FinalizeSummary(Orch)
  \/ SchedulerThread
  \/ FiringStep(EvalOutcomes)

SpecEval == Init /\ [][NextEval]_vars

\* one ScenarioScheduler and its client, over results of every kind and a store
\* that may fail
NextStore ==
  \/ Tick
  \/ \E sid \in Sids : \E cfg \in StoreConfigs : ClientSchedule(sid, cfg)
  \/ ClientStart
  \/ ClientShutdown
  \/ \E sid \in Sids : ClientFinalize(sid)
  \/ \E sid \in Sids : ClientFinalizeAgain(sid)
  \/ FinalizeSummary(Orch)
  \/ SchedulerThread
  \/ FiringStep(StoreOutcomes)

SpecStore == Init /\ [][NextStore]_vars

\* orchestrate() on two scenarios, with its own scheduler; the worker services
\* it deploys run as in SpecDeploy
InitPair == Boot(ScenarioPair)

NextPair ==
  \/ Tick
  \/ \E cfg \in PairConfigs : OrchProcessScenario(cfg)
  \/ OrchStart
  \/ OrchPoll
  \/ OrchFinalize
  \/ OrchShutdown
  \/ OrchRemoveServices
  \/ FinalizeSummary(Orch)
  \/ SchedulerThread
  \/ FiringStep(HandlerOutcomes)

SpecPair == InitPair /\ [][NextPair]_vars

\* the same, with a client that schedules an id more than once
NextReschedule ==
  \/ Next
  \/ \E sid \in Sids : \E cfg \in Configs : ClientReschedule(sid, cfg)

SpecReschedule == Init /\ [][NextReschedule]_vars

\* the deployment: orchestrate() and the worker of every scenario, with
\* protocol handlers that return
NextDeploy ==
  \/ Tick
  \/ \E cfg \in Configs : OrchProcessScenario(cfg)
  \/ OrchStart
  \/ OrchPoll
  \/ OrchFinalize
  \/ OrchShutdown
  \/ OrchRemoveServices
  \/ \E w \in Workers : WorkerSchedule(w)
  \/ \E w \in Workers : WorkerStart(w)
  \/ \E w \in Workers : WorkerSleepDone(w)
  \/ \E w \in Workers : WorkerPoll(w)
  \/ \E w \in Workers : WorkerFinalize(w)
  \/ \E w \in Workers : WorkerShutdown(w)
  \/ \E w \in Workers : WorkerExit(w)
  \/ \E s \in Scheds : FinalizeSummary(s)
  \/ SchedulerThread
  \/ FiringStep(Returns)

SpecDeploy == Init /\ [][NextDeploy]_vars


\* ===================================================================== claims
FiringsOf(s, sid) == {f \in fired : f.sched = s /\ f.scenario_id = sid}

JobsOf(s, sid) ==
  {pending_jobs[s][i] : i \in {j \in DOMAIN pending_jobs[s] : pending_jobs[s][j].id = JobId(sid)}}
  \cup {jobstore[s][id] : id \in DOMAIN jobstore[s] \cap {JobId(sid)}}

NumJobs(s, sid) ==
  Cardinality({j \in DOMAIN pending_jobs[s] : pending_jobs[s][j].id = JobId(sid)})
  + Cardinality(DOMAIN jobstore[s] \cap {JobId(sid)})

\* C1: every firing of a recurring scenario is at an instant start + k*interval
\* (k = 0, 1, ...) that is strictly before end = start + duration.
C1_FiringsStrictlyBeforeEnd ==
  \A f \in fired : f.trigger.type = "interval" =>
    /\ f.run_time >= f.trigger.start_date
    /\ (f.run_time - f.trigger.start_date) % f.trigger.interval = 0
    /\ f.run_time < f.trigger.end_date

\* C2: no finalize_scenario(scenario_id) of the orchestrator or of a worker is
\* invoked while a firing of that scenario is in flight.
C2_NoFinalizeWhileInFlight == \A f \in finalize_log : ~f.busy

\* C3: a scheduler fires a one-shot scenario exactly once: never twice, and
\* once its job has been processed the firing has happened.
C3_OneShotFiresExactlyOnce ==
  \A s \in Scheds : \A sid \in DOMAIN scenario_jobs[s] :
    scenario_configs[s][sid].mode = "once" =>
      /\ Cardinality(FiringsOf(s, sid)) <= 1
      /\ (state[s] = "running" /\ JobId(sid) \notin DOMAIN jobstore[s])
           => Cardinality(FiringsOf(s, sid)) = 1

\* C4: the run time of a one-shot job is never dropped as a missed fire,
\* however late the scheduling clock comes to it.
C4_OneShotNeverMissed == \A m \in missed : m.trigger.type # "date"

\* C5: once an id has been scheduled again with a well-formed definition, at
\* most one job exists for it, that job is the new definition's, and an end
\* time is registered exactly when the new definition is recurring.
C5_RescheduleReplaces ==
  \A sid \in DOMAIN scenario_configs[Orch] :
    (nsched[Orch] >= 2 /\ scenario_configs[Orch][sid].start_time # "malformed") =>
      /\ NumJobs(Orch, sid) <= 1
      /\ \A job \in JobsOf(Orch, sid) : job.config = scenario_configs[Orch][sid]
      /\ (sid \in DOMAIN scenario_end_times[Orch])
           <=> (scenario_configs[Orch][sid].mode = "recurring")

\* The executor's pool threads keep running: a started job function takes its
\* next step, and its handler returns or raises
SpecLive == Spec /\ WF_vars(FiringStep(HandlerOutcomes))

PersistedBy(inst) ==
  /\ SamplesOf(inst.run_id, inst.results, NoFailure) \subseteq raw_metrics'
  /\ \A i \in DOMAIN inst.config.expectations :
       inst.config.expectations[i].evaluation_scope = "per_iteration" =>
         \E r \in results_log' : r.row.run_id = inst.run_id
                                 /\ r.row.scope = "per_iteration" /\ r.id.i = i

ShutdownSafe(s) ==
  /\ state[s] = "shutdown" => {f \in fired' : f.sched = s} = {f \in fired : f.sched = s}
  /\ (state[s] = "running" /\ state'[s] = "shutdown") => inflight'[s] = inflight[s]
  /\ state[s] = "shutdown" =>
       \A id \in DOMAIN inflight[s] :
         /\ id \in DOMAIN inflight'[s] => inflight'[s][id].run_time = inflight[s][id].run_time
         /\ (id \notin DOMAIN inflight'[s] /\ inflight[s][id].pc = "evaluate")
              => PersistedBy(inflight[s][id])

\* C6: after shutdown() a scheduler starts no firing; the shutdown step leaves
\* the firings in flight as they are; each of them goes on to its end, and the
\* one whose handler returned ends with its samples and per-iteration rows stored.
C6_ShutdownKeepsInFlight ==
  /\ [][\A s \in Scheds : ShutdownSafe(s)]_vars
  /\ \A s \in Scheds :
       (state[s] = "shutdown" /\ inflight[s] # <<>>) ~> (inflight[s] = <<>>)

C6_Witness ==
  /\ state[Orch] = "shutdown"
  /\ \E id \in DOMAIN inflight[Orch] : inflight[Orch][id].pc = "evaluate"

OneShots(s) ==
  {sid \in DOMAIN scenario_jobs[s] : scenario_configs[s][sid].mode = "once"}

\* C7: for a one-shot scenario of a scheduler that has not been shut down,
\* is_scenario_complete is false while the job still waits for its run time and
\* true once the firing has happened.
C7_OneShotCompletion ==
  \A sid \in OneShots(Orch) :
    state[Orch] # "shutdown" =>
      /\ (JobsOf(Orch, sid) # {} /\ FiringsOf(Orch, sid) = {})
           => is_scenario_complete(Orch, sid) = "False"
      /\ FiringsOf(Orch, sid) # {} => is_scenario_complete(Orch, sid) = "True"

ExpectedEnd(s, sid) ==
  (IF scenario_configs[s][sid].start_time = "immediate"
   THEN 4 * scheduled_at[s][sid] + 1 ELSE 4 * scenario_configs[s][sid].start_iso)
  + 4 * scenario_configs[s][sid].duration_hours

Recurrings(s) ==
  {sid \in DOMAIN scenario_jobs[s] :
     /\ scenario_configs[s][sid].mode = "recurring"
     /\ scenario_configs[s][sid].start_time # "malformed"}

FinalizesOf(sid) == {f \in finalize_log : f.scenario_id = sid}

\* C9: across the orchestrator and the workers a scenario is finalized at most
\* once, and exactly once by the time orchestrate() has ended.
C9_FinalizeOncePerScenario ==
  \A sid \in Sids :
    /\ Cardinality(FinalizesOf(sid)) <= 1
    /\ opc = "done" => Cardinality(FinalizesOf(sid)) = 1

\* C10: across the deployment no two schedulers fire the same scenario for the
\* same instant, so each firing instant has one handler call and one Test Run.
C10_OneRunPerFiringInstant ==
  \A f1, f2 \in fired :
    (f1.scenario_id = f2.scenario_id /\ f1.run_time = f2.run_time) => f1.sched = f2.sched

\* ------------------------------------------------------ evaluation, as stated
\* the statistic that kind names over every sample of a metric in a scenario:
\* 0 without samples, the average for a kind that is none of the six
SelectAggregate(sid, metric, kind) ==
  LET values == Named(RowsOfScenario(sid), metric)
  IN IF values = {} THEN Zero
     ELSE CASE kind = "min" -> MinOf(values)
            [] kind = "max" -> MaxOf(values)
            [] kind = "p50" -> calculate_percentile(values, 50)
            [] kind = "p99" -> calculate_percentile(values, 99)
            [] kind = "stddev" -> IF Cardinality(values) > 1 THEN Stdev(values) ELSE Zero
            [] OTHER -> Mean(values)

\* a threshold in the canonical unit of its metric: the multiplier the table of
\* the metric's category lists for the unit, spelled as listed or in another case
Canonical(value, unit, metric) ==
  LET table == get_conversion_table(IF metric \in DOMAIN METRIC_CATEGORIES
                                    THEN METRIC_CATEGORIES[metric] ELSE "count")
  IN IF unit \in DOMAIN table THEN Times(value, table[unit])
     ELSE IF Lower(unit) \in DOMAIN table THEN Times(value, table[Lower(unit)])
     ELSE value

\* the verdict of one comparison
Verdict(measured, operator, expected) ==
  IF \/ operator = "lte" /\ ~Less(expected, measured)
     \/ operator = "lt" /\ Less(measured, expected)
     \/ operator = "gte" /\ ~Less(measured, expected)
     \/ operator = "gt" /\ Less(expected, measured)
     \/ operator = "eq" /\ Same(measured, expected)
  THEN "PASS" ELSE "FAIL"

ScopeOf(expectations, scope) ==
  {i \in DOMAIN expectations : expectations[i].evaluation_scope = scope}

\* the step in which scheduler s evaluates the scenario scope of sid
FinalizeStep(s, sid) == fin[s] = None /\ fin'[s] = Some(sid)

\* C11: a finalize_scenario call writes one row for every scenario-scope
\* expectation of the scenario and no other row; the row's measured value is the
\* named statistic over all samples of all runs of the scenario, its verdict
\* the comparison with the threshold in the canonical unit; the summary is
\* written after these rows.
C11_FinalizeEvaluatesScenarioScope ==
  [][\A s \in Scheds : \A sid \in DOMAIN scenario_configs[s] :
       FinalizeStep(s, sid) =>
         LET new == results_log' \ results_log
             expectations == scenario_configs[s][sid].expectations
         IN /\ \A r \in new : r.row.scope = "scenario"
            /\ Cardinality(new) = Cardinality(ScopeOf(expectations, "scenario"))
            /\ \A i \in ScopeOf(expectations, "scenario") :
                 \E r \in new :
                   /\ r.id.i = i
                   /\ r.row.metric_name = expectations[i].metric
                   /\ Same(r.row.measured_value,
                           SelectAggregate(sid, expectations[i].metric,
                                           expectations[i].aggregation))
                   /\ r.row.status =
                        Verdict(r.row.measured_value, expectations[i].operator,
                                Canonical(Num(expectations[i].value, 1),
                                          expectations[i].unit, expectations[i].metric))
            /\ scenario_summary' = scenario_summary]_vars

\* the fields of the result records that hold a number, one record after another
NumericFields(results) ==
  Flatten([i \in DOMAIN results |->
             IF results[i].type \in {"dataclass", "dict"}
             THEN SelectSeq(results[i].fields, LAMBDA f : f.kind \in {"int", "float"})
             ELSE <<>>])

\* the average of a metric over the fields of a handler's result records
FieldsOf(results, metric) ==
  {i \in DOMAIN NumericFields(results) : NumericFields(results)[i].name = metric}

RECURSIVE SumFields(_, _)
SumFields(flat, S) ==
  IF S = {} THEN 0
  ELSE LET i == CHOOSE x \in S : TRUE IN flat[i].value + SumFields(flat, S \ {i})

RunAverage(results, metric) ==
  IF FieldsOf(results, metric) = {} THEN Zero
  ELSE Num(SumFields(NumericFields(results), FieldsOf(results, metric)),
           Cardinality(FieldsOf(results, metric)))

Registered(s) == {f \in fired : f.sched = s /\ scenario_configs[s][f.scenario_id].protocol
                                                  \in PROTOCOL_HANDLERS}

\* the instance's run has one Test Run row
OneTestRun(inst) ==
  Cardinality({r \in test_runs : r.run_id = inst.run_id}) = 1
  /\ \A r \in test_runs : r.run_id = inst.run_id => r.scenario_id = inst.scenario_id

\* every field of every result record of the instance is a sample of its run
AllSamplesStored(inst) ==
  /\ \A i \in DOMAIN NumericFields(inst.results) :
       \E m \in raw_metrics : /\ m.run_id = inst.run_id /\ m.id = i
                              /\ m.metric_name = NumericFields(inst.results)[i].name
                              /\ m.metric_value = NumericFields(inst.results)[i].value
  /\ Cardinality(RowsOfRun(inst.run_id)) = Len(NumericFields(inst.results))

\* the step that ends the per-iteration evaluation of an instance
EvaluateStep(s, id) ==
  /\ id \in DOMAIN inflight[s]
  /\ inflight[s][id].pc = "evaluate"
  /\ id \notin DOMAIN inflight'[s]

\* C12: a firing of a registered protocol whose handler returns has one Test
\* Run; when its per-iteration evaluation starts, every field of every result
\* record is stored as a sample of that run, and the evaluation measures the
\* average over all of them.
C12_SamplesBeforeEvaluation ==
  /\ [](\A s \in Scheds :
          /\ Cardinality(RunsBy(s)) =
               Cardinality(Registered(s))
               - Cardinality({id \in DOMAIN inflight[s] : inflight[s][id].pc = "execute"
                                /\ inflight[s][id].config.protocol \in PROTOCOL_HANDLERS})
          /\ \A id \in DOMAIN inflight[s] :
               /\ inflight[s][id].pc \in {"handler", "evaluate"} => OneTestRun(inflight[s][id])
               /\ inflight[s][id].pc = "evaluate" => AllSamplesStored(inflight[s][id]))
  /\ [][\A s \in Scheds : \A id \in DOMAIN inflight[s] :
          EvaluateStep(s, id) =>
            LET inst == inflight[s][id]
                expectations == inst.config.expectations
            IN \A i \in ScopeOf(expectations, "per_iteration") :
                 \E r \in results_log' \ results_log :
                   /\ r.id.i = i
                   /\ r.row.run_id = inst.run_id
                   /\ Same(r.row.measured_value,
                           RunAverage(inst.results, expectations[i].metric))]_vars

C12_Witness ==
  \E id \in DOMAIN inflight[Orch] :
    /\ inflight[Orch][id].pc = "evaluate"
    /\ Len(inflight[Orch][id].results) = 3
    /\ Cardinality(RowsOfRun(inflight[Orch][id].run_id)) = 12

\* ------------------------------------------------------- failures of a firing
Unregistered(inst) == inst.config.protocol \notin PROTOCOL_HANDLERS

\* a step that takes the instance id of scheduler s further or ends it
InstanceStep(s, id) ==
  /\ id \in DOMAIN inflight[s]
  /\ id \notin DOMAIN inflight'[s] \/ inflight'[s][id] # inflight[s][id]

\* the step leaves the scheduler of s, its jobs and its other instances alone
ScheduleUntouched(s, id) ==
  /\ state'[s] = state[s]
  /\ jobstore'[s] = jobstore[s]
  /\ pending_jobs'[s] = pending_jobs[s]
  /\ raised'[s] = raised[s]
  /\ \A other \in DOMAIN inflight[s] \ {id} :
       other \in DOMAIN inflight'[s] /\ inflight'[s][other] = inflight[s][other]

\* the firing recorded or dropped for the run time that follows firing f
Followed(f) ==
  \/ \E g \in fired \cup missed :
       /\ g.sched = f.sched /\ g.scenario_id = f.scenario_id
       /\ g.run_time = f.run_time + f.trigger.interval
  \/ /\ JobId(f.scenario_id) \in DueJobs(f.sched)
     /\ jobstore[f.sched][JobId(f.scenario_id)].next_run_time
          = Some(f.run_time + f.trigger.interval)

\* firing f has a next run time within its trigger that the clock has reached
\* while the scheduler runs
NextIsDue(f) ==
  /\ f.trigger.type = "interval"
  /\ f.run_time + f.trigger.interval <= f.trigger.end_date
  /\ f.run_time + f.trigger.interval <= ReadNow
  /\ state[f.sched] = "running"

\* C13: a firing of a scenario whose protocol has no handler ends at once: it
\* adds no Test Run, no sample and no result row, raises nothing into the
\* scheduler and leaves every job and every other instance as it is, and the
\* scenario's next run times are fired as scheduled.
C13_UnknownProtocolSkipped ==
  /\ [](\A s \in Scheds : \A id \in DOMAIN inflight[s] :
          Unregistered(inflight[s][id]) => inflight[s][id].pc = "execute")
  /\ [](\A f \in fired :
          (scenario_configs[f.sched][f.scenario_id].protocol \notin PROTOCOL_HANDLERS
           /\ NextIsDue(f)) => Followed(f))
  /\ [][\A s \in Scheds : \A id \in DOMAIN inflight[s] :
          (Unregistered(inflight[s][id]) /\ InstanceStep(s, id)) =>
            /\ id \notin DOMAIN inflight'[s]
            /\ UNCHANGED <<test_runs, raw_metrics, results_log, scenario_summary>>
            /\ ScheduleUntouched(s, id)]_vars

\* the scenario without handler has fired twice, and the other scenario of the
\* orchestration has fired after the first of these firings
C13_Witness ==
  \E sid \in DOMAIN scenario_configs[Orch] :
    /\ scenario_configs[Orch][sid].protocol \notin PROTOCOL_HANDLERS
    /\ Cardinality(FiringsOf(Orch, sid)) = 2
    /\ \A f \in FiringsOf(Orch, sid) : f.run_time < f.trigger.end_date
    /\ JobId(sid) \notin DOMAIN inflight[Orch]
    /\ test_runs # {}
    /\ \A r \in test_runs : r.scenario_id # sid
    /\ \E f \in FiringsOf(Orch, sid) : \E g \in fired :
         g.scenario_id # sid /\ g.run_time > f.run_time

\* the step in which the handler of instance id raises
RaiseStep(s, id) ==
  /\ InstanceStep(s, id)
  /\ inflight[s][id].pc = "handler"
  /\ ~(id \in DOMAIN inflight'[s] /\ inflight'[s][id].pc = "evaluate")

\* the step in which the handler of instance id returns
ReturnStep(s, id) ==
  /\ id \in DOMAIN inflight[s] /\ id \in DOMAIN inflight'[s]
  /\ inflight[s][id].pc = "handler"
  /\ inflight'[s][id].pc = "evaluate"

\* the scheduler of s processes the due run time of job id, no instance of
\* the job runs and the run time is within the grace time
FiresNow(s, id) ==
  /\ state[s] = "running"
  /\ id \in DueJobs(s)
  /\ jobstore'[s] # jobstore[s]
  /\ id \notin DOMAIN inflight[s]
  /\ ~Misfired(CoalescedRunTime(jobstore[s][id]))

\* C14: when the handler of a firing raises, the firing ends there: its run has
\* no sample then or later, no row is written, the job function is not called
\* again for it, and the scheduler, its jobs and its other instances stay as
\* they are, so that every later run time of the job is fired when it is due.
C14_HandlerFailureIsLocal ==
  /\ [](\A s \in Scheds : Cardinality(RunsBy(s)) <= Cardinality({f \in fired : f.sched = s}))
  /\ [][\A s \in Scheds : \A id \in DOMAIN inflight[s] :
          RaiseStep(s, id) =>
            /\ id \notin DOMAIN inflight'[s]
            /\ RowsOfRun(inflight[s][id].run_id) = {}
            /\ UNCHANGED <<test_runs, raw_metrics, results_log, scenario_summary, fired>>
            /\ ScheduleUntouched(s, id)]_vars
  /\ [][raw_metrics' # raw_metrics =>
          \E s \in Scheds : \E id \in DOMAIN inflight[s] :
            /\ ReturnStep(s, id)
            /\ \A m \in raw_metrics' \ raw_metrics : m.run_id = inflight[s][id].run_id]_vars
  /\ [][\A s \in Scheds : \A id \in DOMAIN jobstore[s] :
          FiresNow(s, id) =>
            /\ Firing(s, jobstore[s][id]) \in fired'
            /\ id \in DOMAIN inflight'[s]
            /\ inflight'[s][id].run_time = CoalescedRunTime(jobstore[s][id])]_vars

\* a scenario has fired twice before its end; the handler of the first firing
\* raised, so that its run has no sample, and the second firing has its own run
C14_Witness ==
  \E sid \in DOMAIN scenario_configs[Orch] :
    /\ Cardinality(FiringsOf(Orch, sid)) = 2
    /\ \A f \in FiringsOf(Orch, sid) : f.run_time < f.trigger.end_date
    /\ Cardinality(RunsOf(sid)) = 2
    /\ RowsOfRun(<<Orch, 1>>) = {}
    /\ <<Orch, 1>> \in RunsOf(sid)
    /\ \E id \in DOMAIN inflight[Orch] :
         inflight[Orch][id].run_id = <<Orch, 2>> /\ inflight[Orch][id].scenario_id = sid

\* C15: the per-iteration evaluation of a run writes one row for every
\* per_iteration expectation and no other row; the row's measured value is the
\* run's average of the metric, 0 when the run has no sample of it; the verdict
\* compares the measured value as it is with the threshold in the canonical
\* unit, so a metric without sample fails every positive gte or gt threshold.
C15_PerIterationEvaluation ==
  [][\A s \in Scheds : \A id \in DOMAIN inflight[s] :
       EvaluateStep(s, id) =>
         LET inst == inflight[s][id]
             expectations == inst.config.expectations
             new == results_log' \ results_log
         IN /\ \A r \in new : r.row.scope = "per_iteration" /\ r.row.run_id = inst.run_id
            /\ Cardinality(new) = Cardinality(ScopeOf(expectations, "per_iteration"))
            /\ \A i \in ScopeOf(expectations, "per_iteration") :
                 \E r \in new :
                   /\ r.id.i = i
                   /\ r.row.metric_name = expectations[i].metric
                   /\ Same(r.row.measured_value,
                           RunAverage(inst.results, expectations[i].metric))
                   /\ r.row.status =
                        Verdict(r.row.measured_value, expectations[i].operator,
                                Canonical(Num(expectations[i].value, 1),
                                          expectations[i].unit, expectations[i].metric))
                   /\ (FieldsOf(inst.results, expectations[i].metric) = {}
                       /\ expectations[i].operator \in {"gte", "gt"}
                       /\ expectations[i].value > 0) => r.row.status = "FAIL"]_vars

\* C16 as stated: no per-iteration row is written for a metric that the run has
\* no sample of.
C16_NoRowForAbsentMetric ==
  \A r \in results_log :
    r.row.scope = "per_iteration" =>
      Named(RowsOfRun(r.row.run_id), r.row.metric_name) # {}

\* C16: per-iteration rows are written only by the evaluation of a run whose
\* handler returned, so a run whose handler raised has none; a run whose
\* handler returned gets, for every per_iteration expectation on a metric it
\* has no sample of, a row with measured value 0.
C16_RowsUnlessHandlerRaised ==
  /\ [][\A r \in results_log' \ results_log :
          r.row.scope = "per_iteration" =>
            \E s \in Scheds : \E id \in DOMAIN inflight[s] :
              EvaluateStep(s, id) /\ r.row.run_id = inflight[s][id].run_id]_vars
  /\ [][\A s \in Scheds : \A id \in DOMAIN inflight[s] :
          RaiseStep(s, id) =>
            /\ results_log' = results_log
            /\ \A r \in results_log :
                 r.row.scope = "per_iteration" => r.row.run_id # inflight[s][id].run_id]_vars
  /\ [][\A s \in Scheds : \A id \in DOMAIN inflight[s] :
          EvaluateStep(s, id) =>
            LET inst == inflight[s][id]
                expectations == inst.config.expectations
            IN \A i \in ScopeOf(expectations, "per_iteration") :
                 Named(RowsOfRun(inst.run_id), expectations[i].metric) = {} =>
                   \E r \in results_log' \ results_log :
                     /\ r.id.i = i
                     /\ r.row.run_id = inst.run_id
                     /\ r.row.metric_name = expectations[i].metric
                     /\ Same(r.row.measured_value, Zero)]_vars

\* the handler of the first run raised: no sample, no row; the handler of the
\* second returned no result: its evaluation wrote a row with measured 0
C16_Witness ==
  /\ inflight[Orch] = <<>>
  /\ {<<Orch, 1>>, <<Orch, 2>>} \subseteq RunsOf("s1")
  /\ RowsOfRun(<<Orch, 1>>) = {}
  /\ \A r \in results_log : r.row.scope = "per_iteration" => r.row.run_id # <<Orch, 1>>
  /\ RowsOfRun(<<Orch, 2>>) = {}
  /\ \E r \in results_log :
       /\ r.row.run_id = <<Orch, 2>>
       /\ r.row.scope = "per_iteration"
       /\ Same(r.row.measured_value, Zero)

\* C17: a row written for an expectation whose metric has no recorded sample
\* (in the run for the per_iteration scope, in the scenario for the scenario
\* scope) has measured value 0 and its verdict is not PASS, whatever the
\* operator.
C17_MissingMetricNeverPasses ==
  [][/\ \A s \in Scheds : \A id \in DOMAIN inflight[s] :
          EvaluateStep(s, id) =>
            \A r \in results_log' \ results_log :
              Named(RowsOfRun(inflight[s][id].run_id), r.row.metric_name) = {} =>
                Same(r.row.measured_value, Zero) /\ r.row.status # "PASS"
     /\ \A s \in Scheds : \A sid \in DOMAIN scenario_configs[s] :
          FinalizeStep(s, sid) =>
            \A r \in results_log' \ results_log :
              Named(RowsOfScenario(sid), r.row.metric_name) = {} =>
                Same(r.row.measured_value, Zero) /\ r.row.status # "PASS"]_vars

\* C18: orchestrate() does not end on the error of one scenario's definition
\* (a start_time that cannot be parsed, a protocol without handler): if it has
\* stopped on a scenario, every other scenario of the configuration is
\* scheduled and the scheduler that fires them is started.
C18_ConfigErrorIsLocal ==
  opc = "crashed" =>
    \A i \in DOMAIN ScenarioPair :
      ScenarioPair[i] # Head(oleft) =>
        /\ ScenarioPair[i] \in DOMAIN scenario_jobs[Orch]
        /\ state[Orch] # "stopped"

\* the expectation a row of the single scenario of a scheduler was written for
ExpectationOf(r) ==
  LET sid == CHOOSE x \in DOMAIN scenario_configs[r.id.by] : TRUE
  IN scenario_configs[r.id.by][sid].expectations[r.id.i]

\* C19: the verdict of every row is PASS exactly when its operator is lte, lt,
\* gte, gt or eq and the measured value stands in that relation to the
\* expected value it was compared with; it is FAIL for every other operator
\* and for an expectation without operator.
C19_VerdictFollowsOperator ==
  \A r \in results_log :
    LET e == ExpectationOf(r)
        measured == r.row.measured_value
        expected == normalize_for_comparison(measured, Num(e.value, 1), e.unit, e.metric)[2]
    IN /\ r.row.status \in {"PASS", "FAIL"}
       /\ r.row.status = "PASS" <=>
            \/ e.operator = "lte" /\ (Less(measured, expected) \/ Same(measured, expected))
            \/ e.operator = "lt" /\ Less(measured, expected)
            \/ e.operator = "gte" /\ (Less(expected, measured) \/ Same(measured, expected))
            \/ e.operator = "gt" /\ Less(expected, measured)
            \/ e.operator = "eq" /\ Same(measured, expected)

\* rows of an operator the comparison does not know, for a measured value
\* below, at and above the expected one
C19_Witness ==
  /\ \A r \in results_log : ExpectationOf(r).operator = "ne" /\ r.row.status = "FAIL"
  /\ \E r \in results_log : Same(r.row.measured_value, Num(12, 1))
  /\ \E r \in results_log : Less(r.row.measured_value, Num(12, 1))
  /\ \E r \in results_log : Less(Num(12, 1), r.row.measured_value)

\* the kinds and metrics get_aggregated_value is asked for
AggregationKinds ==
  {"avg", "min", "max", "p50", "p99", "stddev", "sample_count", "median"}

EvaluatedMetrics == {"latency", "download_speed", "page_load_time"}

\* C20: get_aggregated_value returns the statistic that kind names when kind is
\* avg, min, max, p50, p99 or stddev, 0 when the scenario has no sample of the
\* metric, and the average for every other kind.
C20_SelectAggregate ==
  \A sid \in Sids : \A metric \in EvaluatedMetrics : \A kind \in AggregationKinds :
    Same(get_aggregated_value(sid, metric, kind), SelectAggregate(sid, metric, kind))

\* ------------------------------------------------------ statistics, as stated
\* the fractions a percentile is asked for, in hundredths
Fractions == {0, 25, 50, 75, 99, 100}

\* the value of rank k among the values of the rows, whatever their order: fewer
\* than k values are below it and at least k are not above it
Ranked(rows, k) ==
  CHOOSE v \in {m.metric_value : m \in rows} :
    /\ Cardinality({m \in rows : m.metric_value < v}) < k
    /\ k <= Cardinality({m \in rows : m.metric_value <= v})

\* the linear interpolation at the fractional index f * (n - 1)
Interpolated(rows, f) ==
  LET idx == f * (Cardinality(rows) - 1)
      floor == idx \div 100
      w == idx % 100
      ceil == IF w = 0 THEN floor ELSE floor + 1
  IN Num(Ranked(rows, floor + 1) * (100 - w) + Ranked(rows, ceil + 1) * w, 100)

ValuesOf(sid, metric) == Named(Parsed(RowsOfScenario(sid)), metric)

\* C21: the percentile of a non-empty list of values at a fraction f of [0, 1]
\* is the linear interpolation between the values at the floor and the ceiling
\* of f * (n - 1), in whatever order the values come; f = 1 gives the maximum;
\* 10, 20, 30, 40 have p50 = 25 and p99 = 39.7; the Scenario Summary stores
\* these values as p50 and p99.
C21_PercentileInterpolates ==
  /\ [](\A sid \in Sids : \A metric \in MetricsOf(sid) :
          LET values == ValuesOf(sid, metric)
          IN /\ \A f \in Fractions :
                  Same(calculate_percentile(values, f), Interpolated(values, f))
             /\ Same(calculate_percentile(values, 100), MaxOf(values))
             /\ Sorted(values) = <<10, 20, 30, 40>> =>
                  /\ Same(calculate_percentile(values, 50), Num(25, 1))
                  /\ Same(calculate_percentile(values, 99), Num(397, 10)))
  /\ [][\A r \in scenario_summary' \ scenario_summary :
          LET values == ValuesOf(r.scenario_id, r.metric_name)
          IN /\ Same(r.p50_value, Interpolated(values, 50))
             /\ Same(r.p99_value, Interpolated(values, 99))]_vars

\* the summary of the samples 40, 10, 30, 20, stored in this order: p50 is 25
\* and p99 is 39.7, where the nearest ranks are 20 and 40
C21_Witness ==
  \E r \in scenario_summary : \E m \in raw_metrics :
    /\ m.id = 1 /\ m.metric_value = 40
    /\ r.metric_name = "latency"
    /\ Sorted(ValuesOf(r.scenario_id, "latency")) = <<10, 20, 30, 40>>
    /\ Same(r.p50_value, Num(25, 1))
    /\ Same(r.p99_value, Num(397, 10))
    /\ ~Same(r.p50_value, calculate_percentile_nearest_rank(ValuesOf(r.scenario_id, "latency"), 50))
    /\ ~Same(r.p99_value, calculate_percentile_nearest_rank(ValuesOf(r.scenario_id, "latency"), 99))

\* the samples of the rows whose stored value is the text of a number
Parseable(rows) == {m \in rows : m.repr = "digits"}

\* runAverages and scenarioStatistics are the statistics of the parseable
\* samples, for the metrics that have one
DropsUnparseable ==
  /\ \A run \in test_runs :
       LET valid == Parseable(RowsOfRun(run.run_id))
           averages == aggregate_metrics_for_run(run.run_id)
       IN /\ DOMAIN averages = {m.metric_name : m \in valid}
          /\ \A metric \in DOMAIN averages :
               Same(averages[metric], Mean(Named(valid, metric)))
  /\ \A sid \in Sids :
       LET valid == Parseable(RowsOfScenario(sid))
           statistics == aggregate_metrics_for_scenario(sid)
       IN /\ DOMAIN statistics = {m.metric_name : m \in valid}
          /\ \A metric \in DOMAIN statistics :
               /\ Same(statistics[metric].avg, Mean(Named(valid, metric)))
               /\ statistics[metric].sample_count = Num(Cardinality(Named(valid, metric)), 1)

\* C22: runAverages and scenarioStatistics drop a stored sample whose value is
\* not the text of a number and aggregate the other samples of its metric; a
\* metric without a valid sample is absent from the result; neither operation
\* raises because of such a sample.
C22_UnparseableSampleIsDropped ==
  /\ DropsUnparseable
  /\ \A sid \in Sids : ~CastRaises(sid)
  /\ \A s \in Scheds : raised[s] # "DataError"

\* ----------------------------------------------------------- the summary table
\* the step in which a persistSummary call of scheduler s returns
PersistStep(s) == fin[s] # None /\ fin'[s] = None /\ raised'[s] = "none"

\* the row holds the statistics of the samples the scenario has now
Fresh(r) ==
  LET stats == aggregate_metrics_for_scenario(r.scenario_id)[r.metric_name]
  IN /\ r.sample_count = stats.sample_count
     /\ r.avg_value = stats.avg
     /\ r.min_value = stats.min
     /\ r.max_value = stats.max
     /\ r.p50_value = stats.p50
     /\ r.p99_value = stats.p99
     /\ r.stddev_value = stats.stddev

\* C23: the summary table never has two rows of one scenario and metric; a
\* persistSummary call that returns leaves, for every metric of the scenario
\* with samples, the row with the statistics just computed, and every other row
\* as it was; when the rows already hold these statistics the table is unchanged.
C23_SummaryUpsert ==
  /\ [](\A r1, r2 \in scenario_summary :
          (r1.scenario_id = r2.scenario_id /\ r1.metric_name = r2.metric_name) => r1 = r2)
  /\ [][\A s \in Scheds :
          PersistStep(s) =>
            LET sid == fin[s][1]
            IN /\ \A metric \in MetricsOf(sid) :
                    \E r \in scenario_summary' :
                      r.scenario_id = sid /\ r.metric_name = metric /\ Fresh(r)
               /\ \A r \in scenario_summary :
                    (r.scenario_id # sid \/ r.metric_name \notin MetricsOf(sid))
                      => r \in scenario_summary'
               /\ Cardinality(scenario_summary') =
                    Cardinality({<<r.scenario_id, r.metric_name>> : r \in scenario_summary}
                                \cup {<<sid, metric>> : metric \in MetricsOf(sid)})
               /\ (\A metric \in MetricsOf(sid) :
                     \E r \in scenario_summary :
                       r.scenario_id = sid /\ r.metric_name = metric /\ Fresh(r))
                    => scenario_summary' = scenario_summary]_vars

\* two finalize_scenario calls have returned, both made when the scenario had
\* latency samples, and the table has one latency row
C23_Witness ==
  /\ Cardinality(FinalizeCalls(Orch, "s1")) = 2
  /\ fin[Orch] = None
  /\ raised[Orch] = "none"
  /\ \E r1, r2 \in results_log :
       /\ r1.row.scope = "scenario" /\ r1.id.call = 1 /\ ~Same(r1.row.measured_value, Zero)
       /\ r2.row.scope = "scenario" /\ r2.id.call = 2 /\ ~Same(r2.row.measured_value, Zero)
  /\ Cardinality(Conflicting(scenario_summary, "s1", "latency")) = 1
  /\ \A r \in scenario_summary : Fresh(r)

\* ------------------------------------------------------ conversions, as stated
\* the conversion table of the category of a metric; a metric without category
\* counts
TableOf(metric) ==
  get_conversion_table(IF metric \in DOMAIN METRIC_CATEGORIES
                       THEN METRIC_CATEGORIES[metric] ELSE "count")

\* C24: for every unit spelling that the conversion table of the metric's
\* category lists, the conversion of a threshold to the canonical unit is the
\* threshold times the multiplier the table gives for that spelling; checked
\* for the threshold and the metric of every expectation that is evaluated.
C24_ListedUnitsConvert ==
  \A r \in results_log :
    LET e == ExpectationOf(r)
    IN \A unit \in DOMAIN TableOf(e.metric) :
         Same(convert_to_standard(Num(e.value, 1), unit, e.metric),
              Times(Num(e.value, 1), TableOf(e.metric)[unit]))

\* unit spellings: the listed ones, other cases of them, and others
UnitSpellings ==
  DOMAIN SPEED_CONVERSIONS \cup DOMAIN TIME_CONVERSIONS \cup DOMAIN COUNT_CONVERSIONS
  \cup {"MS", "Mbps", "parsecs"}

\* the table of the metric's category lists the unit, in some case
Recognized(unit, metric) ==
  \E listed \in DOMAIN TableOf(metric) : Lower(listed) = Lower(unit)

\* C25: the conversion to the canonical unit returns the threshold as it is for
\* every unit that the table of the metric's category does not recognize, a
\* unit of another category included (5 parsecs of latency are 5); a metric
\* without category converts as a count does; the verdict of an expectation
\* with such a unit compares the measured value with the threshold as written.
C25_UnrecognizedUnitUnchanged ==
  \A r \in results_log :
    LET e == ExpectationOf(r)
        value == Num(e.value, 1)
    IN /\ \A unit \in UnitSpellings :
            ~Recognized(unit, e.metric) => convert_to_standard(value, unit, e.metric) = value
       /\ e.metric \notin DOMAIN METRIC_CATEGORIES =>
            \A unit \in UnitSpellings :
              convert_to_standard(value, unit, e.metric)
                = convert_to_standard(value, unit, "resource_count")
       /\ ~Recognized(e.unit, e.metric) =>
            r.row.status = Verdict(r.row.measured_value, e.operator, value)

\* a run with the latency 12 passes "latency gte 5 parsecs"
C25_Witness ==
  \E r \in results_log :
    /\ ExpectationOf(r).unit = "parsecs"
    /\ ExpectationOf(r).metric = "latency"
    /\ ExpectationOf(r).value = 5
    /\ r.row.scope = "per_iteration"
    /\ Same(r.row.measured_value, Num(12, 1))
    /\ r.row.status = "PASS"

\* ------------------------------------------------------- the store of samples
\* the rows of the batches of the first j result records
WholeBatches(run_id, results, j) == SamplesOf(run_id, SubSeq(results, 1, j), NoFailure)

\* the step in which the loop over the results of instance id has come to its end
StoredStep(s, id) ==
  /\ id \in DOMAIN inflight[s]
  /\ inflight[s][id].pc = "handler"
  /\ id \in DOMAIN inflight'[s]
  /\ inflight'[s][id].pc = "evaluate"

\* C26: the samples of a run are those of whole batches: a batch whose insert
\* fails leaves none of its samples; the failure ends the firing, which goes on
\* to its evaluation only with the samples of every result record stored; no
\* step removes or changes a sample that is stored.
C26_BatchIsAtomic ==
  /\ [](\A run \in test_runs :
          \E results \in StoreResults : \E j \in 0..Len(results) :
            RowsOfRun(run.run_id) = WholeBatches(run.run_id, results, j))
  /\ [][/\ raw_metrics \subseteq raw_metrics'
        /\ \A s \in Scheds : \A id \in DOMAIN inflight[s] :
             StoredStep(s, id) =>
               RowsOfRun(inflight[s][id].run_id)' =
                 WholeBatches(inflight[s][id].run_id, inflight'[s][id].results,
                              Len(inflight'[s][id].results))]_vars

\* the first run has stored the samples of two pages; the second run has the
\* samples of its first page only and has ended without evaluation: the insert
\* of its second batch has failed
C26_Witness ==
  /\ inflight[Orch] = <<>>
  /\ \A sid \in DOMAIN scenario_configs[Orch] :
       scenario_configs[Orch][sid].expectations # <<>>
  /\ Cardinality(RowsOfRun(<<Orch, 1>>)) = 12
  /\ \E r \in results_log : r.row.run_id = <<Orch, 1>> /\ r.row.scope = "per_iteration"
  /\ Cardinality(RowsOfRun(<<Orch, 2>>)) = 6
  /\ \A m \in RowsOfRun(<<Orch, 2>>) : m.metric_name = "page_load_time" => m.metric_value = 30
  /\ \A r \in results_log : r.row.run_id # <<Orch, 2>>

\* ---------------------------------------------------------------- end times
\* C27: a scenario has an end time only if it is recurring; the end time is the
\* start (the instant of the schedule call for "immediate", else the start
\* timestamp) plus the duration; a step that is no schedule call of the
\* scheduler (a firing, start, shutdown, a poll of is_complete, finalize)
\* leaves the end times of the scheduler as they are.
C27_EndTimeFixedAtSchedule ==
  /\ [](\A s \in Scheds : \A sid \in DOMAIN scenario_end_times[s] :
          LET cfg == scenario_configs[s][sid]
              start_dt == scenario_end_times[s][sid] - Units(cfg.duration_hours)
          IN /\ cfg.mode = "recurring"
             /\ IF cfg.start_time = "immediate"
                THEN UnitOf(start_dt) = scheduled_at[s][sid]
                ELSE start_dt = Units(cfg.start_iso))
  /\ [][\A s \in Scheds :
          nsched'[s] = nsched[s] => scenario_end_times'[s] = scenario_end_times[s]]_vars

\* a worker whose scenario starts at a timestamp has fired, polled, finalized
\* and shut down, and the end time is the one that schedule_scenario has set
C27_Witness ==
  \E w \in Workers :
    /\ wpc[w] = "exited"
    /\ w \in DOMAIN scenario_end_times[w]
    /\ scenario_configs[w][w].start_time = "iso"
    /\ scenario_end_times[w][w] =
         Units(scenario_configs[w][w].start_iso + scenario_configs[w][w].duration_hours)
    /\ scheduled_at[w][w] < UnitOf(scenario_end_times[w][w])
    /\ \E f \in fired : f.sched = w
    /\ \E f \in finalize_log : f.by = w

\* ---------------------------------------------------------------- extraction
\* C28: the samples a firing has stored when it evaluates are exactly the
\* number-valued fields of its result records that are dataclasses or dicts:
\* a field of text, a boolean, None or nested data gives no sample, and neither
\* does a record of another kind; every stored value is the text of a number.
C28_ExtractsNumericFields ==
  \A s \in Scheds : \A id \in DOMAIN inflight[s] :
    inflight[s][id].pc = "evaluate" =>
      LET inst == inflight[s][id]
          rows == RowsOfRun(inst.run_id)
          fields == NumericFields(inst.results)
      IN /\ \A m \in rows :
              /\ m.repr = "digits"
              /\ \E i \in DOMAIN fields :
                   fields[i].name = m.metric_name /\ fields[i].value = m.metric_value
         /\ \A i \in DOMAIN fields :
              Cardinality(Named(rows, fields[i].name))
                = Cardinality(FieldsOf(inst.results, fields[i].name))

\* ------------------------------------------------------------ worker's wait
\* C29: whenever a worker calls finalize_scenario for its scenario,
\* is_scenario_complete answers True for it at that moment, whatever the
\* schedule of the scenario: no firing of the scenario is still to come.
C29_WorkerFinalizesWhenComplete ==
  \A f \in finalize_log : f.by \in Workers => f.complete = "True"

\* --------------------------------------------------- summary at termination
\* the programs that have ended after their finalize_scenario and shutdown
Terminated(sid) == opc = "done" \/ wpc[sid] = "exited"

\* C30: once orchestrate() or the worker of a scenario has ended, every metric
\* with a stored sample of the scenario has a summary row, and the sample_count
\* of every summary row of the scenario is the number of stored samples of its
\* metric: nothing was stored after the summary was last computed.
C30_SummaryCoversAllSamples ==
  \A sid \in Sids :
    Terminated(sid) =>
      /\ \A m \in RowsOfScenario(sid) :
           \E row \in scenario_summary :
             row.scenario_id = sid /\ row.metric_name = m.metric_name
      /\ \A row \in scenario_summary :
           row.scenario_id = sid =>
             row.sample_count
               = Num(Cardinality(Named(RowsOfScenario(sid), row.metric_name)), 1)

\* ------------------------------------------- evaluation and summary of a call
\* the statistic of a summary row that an aggregation kind names
Column(r, kind) ==
  CASE kind = "avg" -> r.avg_value
    [] kind = "min" -> r.min_value
    [] kind = "max" -> r.max_value
    [] kind = "p50" -> r.p50_value
    [] kind = "p99" -> r.p99_value
    [] kind = "stddev" -> r.stddev_value

\* the scenario-scope rows of results_log that the finalize_scenario call in
\* progress on scheduler s has written, each with its expectation
RowsOfCall(s) ==
  {r \in results_log :
     /\ r.id.by = s
     /\ r.id.call = Cardinality({f \in finalize_log : f.by = s})
     /\ r.row.scope = "scenario"}

\* C31: when the save_scenario_summary of a finalize_scenario call returns, the
\* measured value of every scenario-scope row the call has written, for an
\* aggregation kind avg, min, max, p50, p99 or stddev, is the statistic of that
\* kind in the summary row the call leaves for the row's metric.
C31_MeasuredMatchesSummary ==
  [][\A s \in Scheds :
       PersistStep(s) =>
         \A r \in RowsOfCall(s) :
           LET expectation == scenario_configs[s][fin[s][1]].expectations[r.id.i]
           IN expectation.aggregation \in {"avg", "min", "max", "p50", "p99", "stddev"} =>
                \A row \in scenario_summary' :
                  (row.scenario_id = fin[s][1] /\ row.metric_name = expectation.metric)
                    => Same(r.row.measured_value, Column(row, expectation.aggregation))]_vars

\* ------------------------------------------------- a schedule call that fails
\* the step in which a schedule_scenario call of scheduler s raises
ScheduleFails(s) == nsched'[s] # nsched[s] /\ raised'[s] # "none"

\* C32: a schedule_scenario call that raises leaves the registry of its
\* scheduler as it was: the job, end-time and config maps, and the jobs of the
\* scheduler.
C32_FailedScheduleChangesNothing ==
  [][\A s \in Scheds :
       ScheduleFails(s) =>
         /\ scenario_jobs'[s] = scenario_jobs[s]
         /\ scenario_end_times'[s] = scenario_end_times[s]
         /\ scenario_configs'[s] = scenario_configs[s]
         /\ pending_jobs'[s] = pending_jobs[s]
         /\ jobstore'[s] = jobstore[s]]_vars

=============================================================================
